---- MODULE Spec2Model ----
(***************************************************************************)
(* Verification model of PixelPouch.                                       *)
(*                                                                         *)
(*  Spec        the code execution bridge (libs/core/debug/server.py):     *)
(*              one server thread, its accept loop and the peers that      *)
(*              connect to it.                                             *)
(*  SpecClient  SendPythonClient.send_code (libs/core/debug/client.py)     *)
(*              against an arbitrary peer.                                 *)
(*  SpecStart   the start-once guards of SendPythonServer and              *)
(*              DebugpyRuntime under concurrent callers.                   *)
(*  SpecIcon    the lazy icon cache of the icon browser                    *)
(*              (SvgZipListModel, SvgIconWorker, preload and paint).       *)
(*  SpecPreload the same window on an archive with a folder larger than    *)
(*              the preload limit.                                         *)
(*  SpecGroup   regroup_svgs_for_ui on archive listings and category maps. *)
(*  SpecWheel   WheelTabBar.wheelEvent.                                    *)
(*  SpecHost    the viewport toggle and node creation against the host's   *)
(*              desktop.                                                   *)
(*  SpecQt      get_qapplication.                                          *)
(*  SpecQss     QssLoader.load and its @import resolution.                 *)
(*  SpecExec    SendPythonServer._execute and the scope of its stdout and  *)
(*              stderr redirection.                                        *)
(*  SpecSingleton  Singleton.__new__ under concurrent constructions        *)
(*              (libs/core/utility.py).                                    *)
(*  SpecWatch   the debug bootstrap: ProcessWatchdog against the           *)
(*              DebugpyRuntime thread and the ready-marker file.           *)
(*  SpecDebug   set_debug.start_debugpy under concurrent calls.            *)
(*  SpecLife    start() of SendPythonServer next to the life of its        *)
(*              server thread.                                             *)
(***************************************************************************)
EXTENDS Integers, Sequences, FiniteSets, TLC

(***************************************************************************)
(* Bounds                                                                  *)
(***************************************************************************)
MaxConns == 2

\* threads that call start(), and calls each of them makes
MaxCallers == 2

MaxStartCalls == 2

\* request_icon calls counted per cell (the count saturates here)
MaxRequests == 2

Conns == 1..MaxConns

(***************************************************************************)
(* Python values that submitted code can bind.  "None" is Python's None    *)
(* (JSON null); "object" stands for any value json.dumps rejects.          *)
(***************************************************************************)
Unbound == "unbound"

PyNone == "None"

Names == {"x", "result"}

(***************************************************************************)
(* Submitted source code: a sequence of top-level statements.              *)
(*   set   name val   name = <literal val>                                 *)
(*   copy  name val   name = <the name val>          (reads a name)        *)
(*   gset  name val   global name; name = <literal val>                    *)
(*   print name       print(..., file=sys.<name>)                          *)
(*   raise val        raise <val>()                                        *)
(***************************************************************************)
Stmt(op, name, val) == [op |-> op, name |-> name, val |-> val]

Programs ==
    { <<>>,
      <<Stmt("set", "result", "int42")>>,
      <<Stmt("set", "result", "tuple")>>,
      <<Stmt("set", "result", "object")>>,
      <<Stmt("set", "x", "int42")>>,
      <<Stmt("gset", "x", "int42")>>,
      <<Stmt("gset", "result", "int42")>>,
      <<Stmt("copy", "result", "x")>>,
      <<Stmt("print", "stdout", ""), Stmt("raise", "", "Exception")>>,
      <<Stmt("print", "stderr", "")>>,
      <<Stmt("raise", "", "SystemExit")>> }

(***************************************************************************)
(* What a peer can put on the wire.                                        *)
(***************************************************************************)
Payload(kind, code) == [kind |-> kind, code |-> code]

NoPayload == Payload("none", <<>>)

MalformedKinds == {"not_json", "not_object", "no_code", "code_not_str"}

Payloads ==
    { Payload("request", p) : p \in Programs } \cup
    { Payload(k, <<>>) : k \in MalformedKinds }

VARIABLES srvPc, cur, backlog, peerState, inbuf, connState, received,
          sent, ran, raised, localNs, gNs, pending, acceptOrder, execOrder,
          srvLog

bridgeVars == <<srvPc, cur, backlog, peerState, inbuf, connState, received,
                sent, ran, raised, localNs, gNs, pending, acceptOrder,
                execOrder, srvLog>>

\* SendPythonClient.send_code: one call and what its peer does
VARIABLES clPc, clEnv, clOut, clIn, clResult

clientVars == <<clPc, clEnv, clOut, clIn, clResult>>

\* start(): the start-once guards and their callers
VARIABLES started, lock, spawned, stPc, stSvc, stCalls, stDone

startVars == <<started, lock, spawned, stPc, stSvc, stCalls, stDone>>

\* the icon browser window, its tabs and their SvgZipListModels
VARIABLES tabs, hou, curTab, preloaded, models, requests, searchText,
          tabFilter

iconVars == <<tabs, hou, curTab, preloaded, models, requests, searchText,
              tabFilter>>

\* regroup_svgs_for_ui applied to one archive listing and one category map
VARIABLES grpArchive, grpMap, grpPc, grpResult

groupVars == <<grpArchive, grpMap, grpPc, grpResult>>

\* one WheelTabBar and the wheel events it receives
VARIABLES wtCount, wtIndex, wtPrev, wtDelta, wtAccepted, wtEvents

wheelVars == <<wtCount, wtIndex, wtPrev, wtDelta, wtAccepted, wtEvents>>

\* the Houdini desktop as the viewport and node-creation operations see it
VARIABLES host, hostLast, hostOps

hostVars == <<host, hostLast, hostOps>>

\* the Qt application object of the process and the get_qapplication calls
VARIABLES qtApp, qtCreated, qtLog

qtVars == <<qtApp, qtCreated, qtLog>>

\* one QssLoader.load call: the main file, its text and what load produced
VARIABLES qssMain, qssText, qssPc, qssResult

qssVars == <<qssMain, qssText, qssPc, qssResult>>

\* one SendPythonServer._execute call at a time, seen from sys.stdout/stderr
VARIABLES exPc, exCode, exSys, exOld, exSt, exBefore, exResp, exRuns

execVars == <<exPc, exCode, exSys, exOld, exSt, exBefore, exResp, exRuns>>

\* Singleton.__new__ under concurrent constructions
VARIABLES snInstances, snLocks, snHeld, snMade, snInits, snReturned,
          snPc, snCls, snLock, snLocal, snCalls, snNextLock, snNextInst

singletonVars == <<snInstances, snLocks, snHeld, snMade, snInits, snReturned,
                   snPc, snCls, snLock, snLocal, snCalls, snNextLock,
                   snNextInst>>

\* the debug bootstrap process: main, the watchdog thread and the
\* DebugpyRuntime thread, and the ready-marker file they share
VARIABLES bootPc, wdPc, rtPc, markerFile, houdiniAlive, wdChecks, wdRemoved

watchVars == <<bootPc, wdPc, rtPc, markerFile, houdiniAlive, wdChecks,
               wdRemoved>>

\* set_debug.start_debugpy called from several threads of the host session
VARIABLES sdPc, sdLock, sdHeld, sdFlag, sdSpawned, sdCalls, sdNextLock

debugVars == <<sdPc, sdLock, sdHeld, sdFlag, sdSpawned, sdCalls, sdNextLock>>

\* the thread of one SendPythonServer object: its state and why it ended
VARIABLES lfThread, lfCause, lfBegun, lfServed

lifeVars == <<lfThread, lfCause, lfBegun, lfServed>>

vars == <<bridgeVars, clientVars, startVars, iconVars, groupVars,
          wheelVars, hostVars, qtVars, qssVars, execVars, singletonVars,
          watchVars, debugVars, lifeVars>>

notBridge == <<clientVars, startVars, iconVars, groupVars, wheelVars,
               hostVars, qtVars, qssVars, execVars, singletonVars,
               watchVars, debugVars, lifeVars>>

notClient == <<bridgeVars, startVars, iconVars, groupVars, wheelVars,
               hostVars, qtVars, qssVars, execVars, singletonVars,
               watchVars, debugVars, lifeVars>>

notStart == <<bridgeVars, clientVars, iconVars, groupVars, wheelVars,
              hostVars, qtVars, qssVars, execVars, singletonVars,
              watchVars, debugVars, lifeVars>>

notIcon == <<bridgeVars, clientVars, startVars, groupVars, wheelVars,
             hostVars, qtVars, qssVars, execVars, singletonVars, watchVars,
             debugVars, lifeVars>>

notGroup == <<bridgeVars, clientVars, startVars, iconVars, wheelVars,
              hostVars, qtVars, qssVars, execVars, singletonVars,
              watchVars, debugVars, lifeVars>>

notWheel == <<bridgeVars, clientVars, startVars, iconVars, groupVars,
              hostVars, qtVars, qssVars, execVars, singletonVars,
              watchVars, debugVars, lifeVars>>

notHost == <<bridgeVars, clientVars, startVars, iconVars, groupVars,
             wheelVars, qtVars, qssVars, execVars, singletonVars,
             watchVars, debugVars, lifeVars>>

notQt == <<bridgeVars, clientVars, startVars, iconVars, groupVars,
           wheelVars, hostVars, qssVars, execVars, singletonVars,
           watchVars, debugVars, lifeVars>>

notQss == <<bridgeVars, clientVars, startVars, iconVars, groupVars,
            wheelVars, hostVars, qtVars, execVars, singletonVars,
            watchVars, debugVars, lifeVars>>

notExec == <<bridgeVars, clientVars, startVars, iconVars, groupVars,
             wheelVars, hostVars, qtVars, qssVars, singletonVars,
             watchVars, debugVars, lifeVars>>

notSingleton == <<bridgeVars, clientVars, startVars, iconVars, groupVars,
                  wheelVars, hostVars, qtVars, qssVars, execVars,
                  watchVars, debugVars, lifeVars>>

notWatch == <<bridgeVars, clientVars, startVars, iconVars, groupVars,
              wheelVars, hostVars, qtVars, qssVars, execVars,
              singletonVars, debugVars, lifeVars>>

notDebug == <<bridgeVars, clientVars, startVars, iconVars, groupVars,
              wheelVars, hostVars, qtVars, qssVars, execVars,
              singletonVars, watchVars, lifeVars>>

notLife == <<bridgeVars, clientVars, startVars, iconVars, groupVars,
             wheelVars, hostVars, qtVars, qssVars, execVars, singletonVars,
             watchVars, debugVars>>

(***************************************************************************)
(* exec(code, globals(), local_ns): the statements run in order until one  *)
(* raises.  A top-level store goes to local_ns unless the name is declared *)
(* global; a load looks in local_ns, then in the globals.                  *)
(***************************************************************************)
EmptyNs == [n \in Names |-> Unbound]

IsException(e) ==
    e \in {"Exception", "NameError", "TypeError", "ValueError",
           "AttributeError", "JSONDecodeError", "ConnectionResetError",
           "BrokenPipeError"}

Lookup(name, l, g) ==
    IF l[name] # Unbound THEN l[name] ELSE g[name]

\* mutant: exec(code, globals()) - a top-level store lands in the globals
StoreLocal_Shared(st, name, val) == [st EXCEPT !.l[name] = val, !.g[name] = val]

StoreLocal(st, name, val) == [st EXCEPT !.l[name] = val]

ExecStmt(s, st) ==
    CASE s.op = "set"   -> StoreLocal(st, s.name, s.val)
      [] s.op = "gset"  -> [st EXCEPT !.g[s.name] = s.val]
      [] s.op = "copy"  -> IF Lookup(s.val, st.l, st.g) = Unbound
                           THEN [st EXCEPT !.exc = "NameError"]
                           ELSE StoreLocal(st, s.name, Lookup(s.val, st.l, st.g))
      [] s.op = "print" -> IF s.name = "stdout"
                           THEN [st EXCEPT !.out = Append(@, "text")]
                           ELSE [st EXCEPT !.err = Append(@, "text")]
      [] s.op = "raise" -> [st EXCEPT !.exc = s.val]

RECURSIVE RunCode(_, _)
RunCode(code, st) ==
    IF code = <<>> \/ st.exc # "none"
    THEN st
    ELSE RunCode(Tail(code), ExecStmt(Head(code), st))

Response(status, out, err, result) ==
    [status |-> status, stdout |-> out, stderr |-> err, result |-> result]

\* traceback.format_exc(): never empty, names the exception
Traceback(e) == <<"Traceback", e>>

\* mutant: the result binding is never read back
GetResult_Dropped(l) == PyNone

\* local_ns.get("result")
GetResult(l) == IF l["result"] = Unbound THEN PyNone ELSE l["result"]

NewLocalNs(g) == EmptyNs

ErrStderr(st) == Traceback(st.exc)

\* SendPythonServer._execute: kind "return" carries the response map,
\* kind "propagate" is an exception that `except Exception` lets through.
Execute(code, g) ==
    LET st == RunCode(code, [g |-> g, l |-> NewLocalNs(g), out |-> <<>>,
                             err |-> <<>>, exc |-> "none"])
    IN  [kind |-> IF st.exc = "none" \/ IsException(st.exc)
                  THEN "return" ELSE "propagate",
         response |-> IF st.exc = "none"
                      THEN Response("ok", st.out, st.err, GetResult(st.l))
                      ELSE Response("error", st.out, ErrStderr(st), PyNone),
         g |-> st.g, l |-> st.l, exc |-> st.exc]

(***************************************************************************)
(* json.dumps of a response map: a tuple is written as an array, a value   *)
(* json cannot serialise raises TypeError.                                 *)
(***************************************************************************)
JsonImage(v) == IF v = "tuple" THEN "list" ELSE v

JsonDumps(resp) ==
    [ok |-> resp.result # "object",
     doc |-> [resp EXCEPT !.result = JsonImage(@)]]

\* the exception json.loads / request.get / the isinstance check raise
RequestError(payload) ==
    CASE payload.kind = "not_json"     -> "JSONDecodeError"
      [] payload.kind = "not_object"   -> "AttributeError"
      [] payload.kind = "no_code"      -> "ValueError"
      [] payload.kind = "code_not_str" -> "ValueError"
      [] OTHER                         -> "none"

ErrorDoc(e) == Response("error", <<>>, Traceback(e), PyNone)

\* one record of the server's logger: its level, its message and the
\* connection being handled when it was written (0: none)
Log(level, msg, c) == [level |-> level, msg |-> msg, conn |-> c]

Listening == srvPc \in {"accept", "recv", "exec", "respond"}

(***************************************************************************)
(* Initial state: the server thread has been spawned and is about to bind. *)
(***************************************************************************)
BridgeInit ==
    /\ srvPc = "bind"
    /\ cur = 0
    /\ backlog = <<>>
    /\ peerState = [c \in Conns |-> "idle"]
    /\ inbuf = [c \in Conns |-> NoPayload]
    /\ connState = [c \in Conns |-> "none"]
    /\ received = [c \in Conns |-> NoPayload]
    /\ sent = [c \in Conns |-> <<>>]
    /\ ran = [c \in Conns |-> FALSE]
    /\ raised = [c \in Conns |-> "none"]
    /\ localNs = [c \in Conns |-> EmptyNs]
    /\ gNs = EmptyNs
    /\ pending = ErrorDoc("none")
    /\ acceptOrder = <<>>
    /\ execOrder = <<>>
    /\ srvLog = <<>>

(***************************************************************************)
(* Peers                                                                   *)
(***************************************************************************)
PeerLive(c) == peerState[c] = "connected" /\ connState[c] \in {"queued", "handling"}

PeerConnect(c) ==
    /\ Listening
    /\ peerState[c] = "idle"
    /\ \A d \in Conns : d < c => peerState[d] # "idle"
    /\ peerState' = [peerState EXCEPT ![c] = "connected"]
    /\ connState' = [connState EXCEPT ![c] = "queued"]
    /\ backlog' = Append(backlog, c)
    /\ UNCHANGED <<srvPc, cur, inbuf, received, sent, ran, raised, localNs,
                   gNs, pending, acceptOrder, execOrder,
                   srvLog>>
    /\ UNCHANGED notBridge

PeerSend(c, p) ==
    /\ PeerLive(c)
    /\ inbuf[c] = NoPayload
    /\ inbuf' = [inbuf EXCEPT ![c] = p]
    /\ UNCHANGED <<srvPc, cur, backlog, peerState, connState, received, sent,
                   ran, raised, localNs, gNs, pending, acceptOrder, execOrder,
                   srvLog>>
    /\ UNCHANGED notBridge

\* orderly close (FIN): the server reads b"" once the data is consumed
PeerClose(c) ==
    /\ PeerLive(c)
    /\ peerState' = [peerState EXCEPT ![c] = "closed"]
    /\ UNCHANGED <<srvPc, cur, backlog, inbuf, connState, received, sent,
                   ran, raised, localNs, gNs, pending, acceptOrder, execOrder,
                   srvLog>>
    /\ UNCHANGED notBridge

\* abortive close (RST): recv and sendall on the connection raise
PeerReset(c) ==
    /\ PeerLive(c)
    /\ peerState' = [peerState EXCEPT ![c] = "reset"]
    /\ UNCHANGED <<srvPc, cur, backlog, inbuf, connState, received, sent,
                   ran, raised, localNs, gNs, pending, acceptOrder, execOrder,
                   srvLog>>
    /\ UNCHANGED notBridge

(***************************************************************************)
(* The server thread: SendPythonServer._run and _handle_connection.        *)
(***************************************************************************)
\* leaving `with conn:` closes the connection
CloseConn(c) == connState' = [connState EXCEPT ![c] = "closed"]

\* the next iteration of `while True`
BackToAccept == srvPc' = "accept" /\ cur' = 0

\* conn.sendall raises once the peer has reset the connection
SendFails(c) == peerState[c] = "reset"

\* the `except Exception` block of _handle_connection: the error response is
\* sent with a bare conn.sendall; if that raises, the exception leaves
\* _handle_connection and the `while True` loop and is caught by _run's
\* own `except Exception`, after which the thread ends.
HandleFailure(c, e) ==
    /\ CloseConn(c)
    /\ IF SendFails(c)
       THEN /\ srvPc' = "crashed"
            /\ srvLog' = Append(srvLog, Log("error", "server crashed", c))
            /\ UNCHANGED <<cur, sent>>
       ELSE /\ sent' = [sent EXCEPT ![c] = Append(@, ErrorDoc(e))]
            /\ srvLog' = Append(srvLog,
                                Log("error", "failed to handle request", c))
            /\ BackToAccept

\* bind and listen; a failure (port in use) is caught by _run's handler
ServerBind ==
    /\ srvPc = "bind"
    /\ \/ /\ srvPc' = "accept"
          /\ srvLog' = Append(srvLog, Log("info", "listening", 0))
       \/ /\ srvPc' = "crashed"
          /\ srvLog' = Append(srvLog, Log("error", "server crashed", 0))
    /\ UNCHANGED <<cur, backlog, peerState, inbuf, connState, received, sent,
                   ran, raised, localNs, gNs, pending, acceptOrder, execOrder>>
    /\ UNCHANGED notBridge

\* mutant: a connection is accepted while the previous one still executes
CanAccept_Concurrent == srvPc \in {"accept", "exec"}

CanAccept == srvPc = "accept"

ServerAccept ==
    /\ CanAccept
    /\ backlog # <<>>
    /\ cur' = Head(backlog)
    /\ backlog' = Tail(backlog)
    /\ connState' = [connState EXCEPT ![Head(backlog)] = "handling"]
    /\ acceptOrder' = Append(acceptOrder, Head(backlog))
    /\ srvLog' = Append(srvLog, Log("debug", "connection from", Head(backlog)))
    /\ srvPc' = "recv"
    /\ UNCHANGED <<peerState, inbuf, received, sent, ran, raised, localNs,
                   gNs, pending, execOrder>>
    /\ UNCHANGED notBridge

\* mutant: the isinstance(code, str) check is missing
RequestOk_Unchecked(payload) == payload.kind \in {"request", "code_not_str"}

\* json.loads succeeded, request.get("code") is a str (lines 82-86)
RequestOk(payload) == payload.kind = "request"

\* conn.recv returned the request bytes: parse and validate (lines 82-86)
RecvData(c) ==
    /\ inbuf[c] # NoPayload
    /\ received' = [received EXCEPT ![c] = inbuf[c]]
    /\ IF RequestOk(inbuf[c])
       THEN /\ srvPc' = "exec"
            /\ UNCHANGED <<cur, connState, sent, srvLog>>
       ELSE HandleFailure(c, RequestError(inbuf[c]))

\* conn.recv returned b"": `return` without a response (lines 79-80)
RecvEmpty(c) ==
    /\ inbuf[c] = NoPayload
    /\ peerState[c] = "closed"
    /\ CloseConn(c)
    /\ BackToAccept
    /\ UNCHANGED <<received, sent, srvLog>>

\* conn.recv raised ConnectionResetError.  Bytes that arrived before the
\* reset may or may not still be delivered, so RecvData stays possible.
RecvReset(c) ==
    /\ peerState[c] = "reset"
    /\ HandleFailure(c, "ConnectionResetError")
    /\ UNCHANGED received

ServerRecv ==
    /\ srvPc = "recv"
    /\ \/ RecvData(cur)
       \/ RecvEmpty(cur)
       \/ RecvReset(cur)
    /\ UNCHANGED <<backlog, peerState, inbuf, ran, raised, localNs, gNs,
                   pending, acceptOrder, execOrder>>
    /\ UNCHANGED notBridge

\* response = self._execute(code)
ServerExecute ==
    /\ srvPc = "exec"
    /\ LET r == Execute(received[cur].code, gNs)
       IN  /\ gNs' = r.g
           /\ localNs' = [localNs EXCEPT ![cur] = r.l]
           /\ raised' = [raised EXCEPT ![cur] = r.exc]
           /\ ran' = [ran EXCEPT ![cur] = TRUE]
           /\ execOrder' = Append(execOrder, cur)
           /\ IF r.kind = "return"
              THEN /\ pending' = r.response
                   /\ srvPc' = "respond"
                   /\ UNCHANGED connState
              ELSE \* neither handler catches it: the thread ends
                   /\ srvPc' = "exited"
                   /\ CloseConn(cur)
                   /\ UNCHANGED pending
    /\ UNCHANGED <<cur, backlog, peerState, inbuf, received, sent, acceptOrder,
                   srvLog>>
    /\ UNCHANGED notBridge

\* conn.sendall(json.dumps(response).encode("utf-8"))
ServerRespond ==
    /\ srvPc = "respond"
    /\ LET d == JsonDumps(pending)
       IN  IF ~d.ok
           THEN HandleFailure(cur, "TypeError")
           ELSE IF SendFails(cur)
           THEN HandleFailure(cur, "BrokenPipeError")
           ELSE /\ sent' = [sent EXCEPT ![cur] = Append(@, d.doc)]
                /\ CloseConn(cur)
                /\ BackToAccept
                /\ UNCHANGED srvLog
    /\ UNCHANGED <<backlog, peerState, inbuf, received, ran, raised, localNs,
                   gNs, pending, acceptOrder, execOrder>>
    /\ UNCHANGED notBridge

BridgeNext ==
    \/ ServerBind
    \/ ServerAccept
    \/ ServerRecv
    \/ ServerExecute
    \/ ServerRespond
    \/ \E c \in Conns : PeerConnect(c)
    \/ \E c \in Conns : \E p \in Payloads : PeerSend(c, p)
    \/ \E c \in Conns : PeerClose(c)
    \/ \E c \in Conns : PeerReset(c)


(***************************************************************************)
(* Properties of the bridge                                                *)
(***************************************************************************)
Handled(c) == connState[c] = "closed"

PeerPresent(c) == peerState[c] # "reset"

ValidRequest(c) == received[c].kind = "request"

Pos(seq, x) == CHOOSE i \in DOMAIN seq : seq[i] = x

InSeq(seq, x) == \E i \in DOMAIN seq : seq[i] = x

ExecutedBefore(c, d) ==
    /\ InSeq(execOrder, c)
    /\ InSeq(execOrder, d)
    /\ Pos(execOrder, c) < Pos(execOrder, d)

\* C1: every handled connection whose request was valid JSON with a string
\* `code` carries exactly one response, with status ok or error, whatever
\* the code did (the peer stayed connected to receive it).
Cex_C1 ==
    \A c \in Conns :
        (Handled(c) /\ ValidRequest(c) /\ PeerPresent(c))
            => /\ Len(sent[c]) = 1
               /\ sent[c][1].status \in {"ok", "error"}

\* the names a request's code bound at top level / through `global`
TopLevelBound(c, n) ==
    ran[c] /\ \E i \in DOMAIN received[c].code :
                 received[c].code[i].op \in {"set", "copy"}
                 /\ received[c].code[i].name = n
                 /\ localNs[c][n] # Unbound

GlobalBound(c, n) ==
    ran[c] /\ raised[c] = "none"
           /\ \E i \in DOMAIN received[c].code :
                 received[c].code[i].op = "gset" /\ received[c].code[i].name = n

\* a request served from now on finds the name n
ReadableByLater(n) == gNs[n] # Unbound

ReadsX == <<Stmt("copy", "result", "x")>>

\* C2 (as claimed): a name that an earlier request assigned at top level is
\* present and readable by the code of every later request.
Cex_C2 ==
    \A c \in Conns : \A n \in Names :
        TopLevelBound(c, n) => ReadableByLater(n)

\* C2 (amended): the requests share the server module's globals and nothing
\* else.  A name is readable by later requests exactly when some earlier
\* request bound it through `global`; a name assigned at top level lives in
\* that request's own local namespace.  A later `result = x` is answered ok
\* with the stored value exactly when an earlier request stored x globally,
\* and with status error (NameError) otherwise.
Thm_C2 ==
    /\ \A n \in Names :
           ReadableByLater(n) <=> \E c \in Conns : GlobalBound(c, n)
    /\ \A d \in Conns :
           (Handled(d) /\ ran[d] /\ received[d].code = ReadsX /\ PeerPresent(d))
               => /\ Len(sent[d]) = 1
                  /\ IF \E c \in Conns : GlobalBound(c, "x") /\ ExecutedBefore(c, d)
                     THEN sent[d][1].status = "ok" /\ sent[d][1].result = "int42"
                     ELSE sent[d][1].status = "error"

\* C2 witness: one request assigned x at top level, a later one read x and
\* was answered with an error.
Wit_C2 ==
    \E c, d \in Conns :
        /\ ExecutedBefore(c, d)
        /\ TopLevelBound(c, "x")
        /\ received[d].code = ReadsX
        /\ Handled(d)
        /\ Len(sent[d]) = 1
        /\ sent[d][1].status = "error"

\* C3: a failure while handling a connection never stops the server, i.e.
\* the server thread never ends in its crash handler with a connection in
\* hand (it can only do so when bind fails, before any connection).
Cex_C3 == srvPc = "crashed" => cur = 0

\* the value the code left bound to the local name `result` (None if none)
BoundResult(c) ==
    IF localNs[c]["result"] = Unbound THEN "None" ELSE localNs[c]["result"]

CompletedWithResponse(c) ==
    Handled(c) /\ ran[c] /\ raised[c] = "none" /\ sent[c] # <<>>

Cex_C5 ==
    \A c \in Conns :
        (Handled(c) /\ ran[c] /\ raised[c] # "none" /\ PeerPresent(c))
            => /\ sent[c] # <<>>
               /\ sent[c][1].status = "error"
               /\ sent[c][1].stderr # <<>>
               /\ sent[c][1].stderr[1] = "Traceback"
               /\ sent[c][1].result = "None"

\* C6: a request that is not valid JSON, or whose `code` is missing or not a
\* string, coming from a peer that stays to read the reply, is answered with
\* exactly one error response with result null; no code is executed for it,
\* the connection is closed and its handling does not end the server.
Thm_C6 ==
    \A c \in Conns :
        (Handled(c) /\ received[c].kind \in MalformedKinds /\ PeerPresent(c))
            => /\ Len(sent[c]) = 1
               /\ sent[c][1].status = "error"
               /\ sent[c][1].result = "None"
               /\ sent[c][1].stderr # <<>>
               /\ ~ran[c]
               /\ ~InSeq(execOrder, c)
               /\ ~(srvPc \in {"crashed", "exited"} /\ cur = c)

\* C6 witness: a malformed request was answered with an error and closed, and
\* a connection accepted after it has had its code executed.
Wit_C6 ==
    \E c, d \in Conns :
        /\ Handled(c)
        /\ received[c].kind = "code_not_str"
        /\ Len(sent[c]) = 1
        /\ sent[c][1].status = "error"
        /\ InSeq(acceptOrder, d)
        /\ Pos(acceptOrder, c) < Pos(acceptOrder, d)
        /\ ran[d]

\* C7: connections are handled strictly one at a time and in acceptance
\* order: at most one accepted connection is unfinished, it is the one the
\* server thread holds, every connection accepted before it is finished, and
\* code is executed in the order the connections were accepted.
Thm_C7 ==
    /\ Cardinality({c \in Conns : connState[c] = "handling"}) <= 1
    /\ \A c \in Conns : connState[c] = "handling" => cur = c
    /\ \A i, j \in DOMAIN acceptOrder :
           (i < j /\ connState[acceptOrder[j]] \in {"handling", "closed"})
               => connState[acceptOrder[i]] = "closed"
    /\ \A c, d \in Conns :
           ExecutedBefore(c, d) => Pos(acceptOrder, c) < Pos(acceptOrder, d)

\* C7 witness: two connections have both had their code executed, the second
\* still being handled.
Wit_C7 ==
    /\ Len(execOrder) >= 2
    /\ connState[execOrder[1]] = "closed"
    /\ connState[execOrder[2]] = "handling"

\* the connection ended at transport level: it was handled and closed
\* without the server ever having read a byte from it (recv returned b"" or
\* raised ConnectionResetError)
TransportFailure(c) ==
    Handled(c) /\ received[c] = NoPayload /\ InSeq(acceptOrder, c)

ReportedInLog(c) ==
    \E i \in DOMAIN srvLog :
        srvLog[i].conn = c /\ srvLog[i].level \in {"warning", "error"}

\* C20 (as claimed): when a connection delivers no bytes or is reset, the
\* server reports the failure to its own log and drops the connection
\* without sending any response.
Cex_C20 ==
    \A c \in Conns :
        TransportFailure(c) => ReportedInLog(c) /\ sent[c] = <<>>

(***************************************************************************)
(* SendPythonClient.send_code against an arbitrary peer.                   *)
(*                                                                         *)
(* clEnv is what the network and the peer do during the call:              *)
(*   connect  "ok" | "fail"    create_connection succeeds, or is refused   *)
(*                             or times out                                *)
(*   send     "ok" | "fail"    sendall succeeds or raises                  *)
(*   wire     what recv meets: bytes, b"" (peer closed), or an error       *)
(*            (socket timeout, connection reset)                           *)
(***************************************************************************)
Statuses == {"ok", "error"}

Texts == {<<>>, <<"text">>}

JsonResults == {"None", "int42", "list"}

\* the response documents a server can put on the wire
Docs ==
    { Response(st, o, e, r) :
        st \in Statuses, o \in Texts, e \in Texts, r \in JsonResults }

Wire(kind, doc) == [kind |-> kind, doc |-> doc]

NoDoc == Response("none", <<>>, <<>>, "None")

\* kind "json": the UTF-8 JSON text of doc; "not_json": bytes json.loads
\* rejects (garbage, or a response cut off at the buffer size); "bad_utf8":
\* bytes decode() rejects; "empty": b""; "timeout", "reset": recv raises
Wires ==
    { Wire("json", d) : d \in Docs } \cup
    { Wire(k, NoDoc) : k \in {"not_json", "bad_utf8", "empty", "timeout", "reset"} }

ClientEnvs ==
    [connect : {"ok", "fail"}, send : {"ok", "fail"}, wire : Wires]

NoWire == Wire("none", NoDoc)

ClientIdle ==
    /\ clPc = "idle"
    /\ clEnv = [connect |-> "ok", send |-> "ok", wire |-> NoWire]
    /\ clOut = NoPayload
    /\ clIn = NoWire
    /\ clResult = NoDoc

\* mutant: the client looks at the status and fails on "error"
JsonLoads_Interpreting(w) ==
    [ok |-> w.kind = "json" /\ w.doc.status # "error", value |-> w.doc]

\* json.loads(response_bytes.decode(self.encoding))
JsonLoads(w) == [ok |-> w.kind = "json", value |-> w.doc]

\* send_code(code) is called
ClientCall(code, env) ==
    /\ clPc = "idle"
    /\ clPc' = "connect"
    /\ clEnv' = env
    /\ clOut' = NoPayload
    /\ UNCHANGED <<clIn, clResult>>
    /\ UNCHANGED notClient

\* socket.create_connection((host, port), timeout)
ClientConnect ==
    /\ clPc = "connect"
    /\ clPc' = IF clEnv.connect = "ok" THEN "send" ELSE "raised"
    /\ UNCHANGED <<clEnv, clOut, clIn, clResult>>
    /\ UNCHANGED notClient

\* sock.sendall(json.dumps({"code": code}).encode(...))
ClientSendAll(code) ==
    /\ clPc = "send"
    /\ IF clEnv.send = "ok"
       THEN clPc' = "recv" /\ clOut' = Payload("request", code)
       ELSE clPc' = "raised" /\ UNCHANGED clOut
    /\ UNCHANGED <<clEnv, clIn, clResult>>
    /\ UNCHANGED notClient

\* response_bytes = sock.recv(buffer_size); b"" raises RuntimeError
ClientRecv ==
    /\ clPc = "recv"
    /\ IF clEnv.wire.kind \in {"timeout", "reset", "empty"}
       THEN clPc' = "raised" /\ UNCHANGED clIn
       ELSE clPc' = "parse" /\ clIn' = clEnv.wire
    /\ UNCHANGED <<clEnv, clOut, clResult>>
    /\ UNCHANGED notClient

\* the second try block: decode, parse, return
ClientParse ==
    /\ clPc = "parse"
    /\ IF JsonLoads(clIn).ok
       THEN clPc' = "returned" /\ clResult' = JsonLoads(clIn).value
       ELSE clPc' = "raised" /\ UNCHANGED clResult
    /\ UNCHANGED <<clEnv, clOut, clIn>>
    /\ UNCHANGED notClient

ClientNext ==
    \/ \E code \in Programs : \E env \in ClientEnvs : ClientCall(code, env)
    \/ ClientConnect
    \/ \E code \in Programs : ClientSendAll(code)
    \/ ClientRecv
    \/ ClientParse

\* C8: send_code raises exactly when the connection cannot be established,
\* when no bytes come back from the server (the request could not be sent,
\* recv timed out or was reset, or the server closed without answering), or
\* when the bytes that came back are not valid UTF-8 JSON; otherwise it
\* returns the decoded document exactly as the server wrote it, whatever its
\* status.
NoBytesReturned(env) ==
    env.send = "fail" \/ env.wire.kind \in {"empty", "timeout", "reset"}

Thm_C8 ==
    clPc \in {"returned", "raised"}
        => /\ clPc = "raised"
                <=> \/ clEnv.connect = "fail"
                    \/ NoBytesReturned(clEnv)
                    \/ clEnv.wire.kind \in {"not_json", "bad_utf8"}
           /\ clPc = "returned" => clResult = clEnv.wire.doc

\* C8 witness: the server answered with status error and send_code returned
\* that document to its caller.
Wit_C8 ==
    /\ clPc = "returned"
    /\ clResult.status = "error"
    /\ clResult = clEnv.wire.doc

(***************************************************************************)
(* start() of SendPythonServer and of DebugpyRuntime: the same guard,      *)
(*     with self._lock:                                                    *)
(*         if self._started: return                                        *)
(*         self._started = True                                            *)
(*     threading.Thread(target=self._run, ...).start()                     *)
(* called by several threads.  lock[s] is the holder of s's mutex, 0 when  *)
(* it is free.                                                             *)
(***************************************************************************)
Services == {"SendPythonServer", "DebugpyRuntime"}

Callers == 1..MaxCallers

StartIdle ==
    /\ started = [s \in Services |-> FALSE]
    /\ lock = [s \in Services |-> 0]
    /\ spawned = [s \in Services |-> 0]
    /\ stPc = [t \in Callers |-> "idle"]
    /\ stSvc = [t \in Callers |-> "SendPythonServer"]
    /\ stCalls = [t \in Callers |-> 0]
    /\ stDone = [s \in Services |-> 0]

\* mutant: start() does not take the lock
LockFree_NoLock(s) == TRUE

LockFree(s) == lock[s] = 0

\* `with self._lock:` entered
StartAcquire(t, s) ==
    /\ stPc[t] = "idle"
    /\ stCalls[t] < MaxStartCalls
    /\ LockFree(s)
    /\ lock' = [lock EXCEPT ![s] = t]
    /\ stPc' = [stPc EXCEPT ![t] = "check"]
    /\ stSvc' = [stSvc EXCEPT ![t] = s]
    /\ stCalls' = [stCalls EXCEPT ![t] = @ + 1]
    /\ UNCHANGED <<started, spawned, stDone>>
    /\ UNCHANGED notStart

\* `if self._started: return` (leaving the with block releases the lock)
StartCheck(t) ==
    /\ stPc[t] = "check"
    /\ IF started[stSvc[t]]
       THEN /\ lock' = [lock EXCEPT ![stSvc[t]] = 0]
            /\ stPc' = [stPc EXCEPT ![t] = "idle"]
            /\ stDone' = [stDone EXCEPT ![stSvc[t]] = @ + 1]
       ELSE /\ stPc' = [stPc EXCEPT ![t] = "flip"]
            /\ UNCHANGED <<lock, stDone>>
    /\ UNCHANGED <<started, spawned, stSvc, stCalls>>
    /\ UNCHANGED notStart

\* `self._started = True`, then the with block ends
StartFlip(t) ==
    /\ stPc[t] = "flip"
    /\ started' = [started EXCEPT ![stSvc[t]] = TRUE]
    /\ lock' = [lock EXCEPT ![stSvc[t]] = 0]
    /\ stPc' = [stPc EXCEPT ![t] = "spawn"]
    /\ UNCHANGED <<spawned, stSvc, stCalls, stDone>>
    /\ UNCHANGED notStart

\* threading.Thread(target=self._run, daemon=True).start(); return
StartSpawn(t) ==
    /\ stPc[t] = "spawn"
    /\ spawned' = [spawned EXCEPT ![stSvc[t]] = @ + 1]
    /\ stPc' = [stPc EXCEPT ![t] = "idle"]
    /\ stDone' = [stDone EXCEPT ![stSvc[t]] = @ + 1]
    /\ UNCHANGED <<started, lock, stSvc, stCalls>>
    /\ UNCHANGED notStart

StartNext ==
    \/ \E t \in Callers : \E s \in Services : StartAcquire(t, s)
    \/ \E t \in Callers : StartCheck(t)
    \/ \E t \in Callers : StartFlip(t)
    \/ \E t \in Callers : StartSpawn(t)

\* C9: for either service, under every interleaving of start() calls, at most
\* one background thread is ever spawned, a thread is spawned only with the
\* started flag set, and once a call has returned and no call is still on
\* its way to spawn, exactly one thread has been spawned.
Thm_C9 ==
    \A s \in Services :
        /\ spawned[s] <= 1
        /\ spawned[s] = 1 => started[s]
        /\ (stDone[s] >= 1 /\ \A t \in Callers : ~(stPc[t] = "spawn" /\ stSvc[t] = s))
               => spawned[s] = 1

\* C9 witness: two threads have each completed calls to start() on the same
\* service, three calls in all, and one thread was spawned.
Wit_C9 ==
    \E s \in Services :
        /\ stDone[s] >= 3
        /\ \A t \in Callers : stCalls[t] >= 1 /\ stSvc[t] = s /\ stPc[t] = "idle"
        /\ spawned[s] = 1

(***************************************************************************)
(* The icon browser.  An archive member is its path segments and its       *)
(* extension: SOP/box.svg is [parts |-> <<"SOP", "box">>, ext |-> "svg"].  *)
(***************************************************************************)
Member(parts, ext) == [parts |-> parts, ext |-> ext]

\* zf.namelist() of the icon archive
Archive ==
    << Member(<<"SOP", "box">>, "svg"),
       Member(<<"DOP", "solver">>, "SVG"),
       Member(<<"SOP", "notes">>, "txt"),
       Member(<<"logo">>, "svg") >>

\* str.lower() on an extension
Lower(x) == IF x \in {"SVG", "Svg"} THEN "svg" ELSE x

\* name.lower().endswith(".svg")
IsSvg(m) == Lower(m.ext) = "svg"

\* parts[0] if len(parts) > 1 else "root"
FolderOf(m) == IF Len(m.parts) > 1 THEN m.parts[1] ELSE "root"

(***************************************************************************)
(* A Python dict as the sequence of its items in insertion order.          *)
(***************************************************************************)
Item(k, v) == [key |-> k, val |-> v]

HasKey(d, k) == \E i \in DOMAIN d : d[i].key = k

Get(d, k) == d[CHOOSE i \in DOMAIN d : d[i].key = k].val

\* d[k] = v: a new key goes last, an existing key keeps its place
DictSet(d, k, v) ==
    IF HasKey(d, k)
    THEN [i \in DOMAIN d |-> IF d[i].key = k THEN Item(k, v) ELSE d[i]]
    ELSE Append(d, Item(k, v))

\* group_svgs_by_folder: the loop over zf.namelist()
RECURSIVE GroupLoop(_, _)
GroupLoop(names, groups) ==
    IF names = <<>> THEN groups
    ELSE LET m == Head(names)
             f == FolderOf(m)
         IN  IF ~IsSvg(m) THEN GroupLoop(Tail(names), groups)
             ELSE GroupLoop(Tail(names),
                            DictSet(groups, f,
                                    IF HasKey(groups, f)
                                    THEN Append(Get(groups, f), m)
                                    ELSE <<m>>))

group_svgs_by_folder(names) == GroupLoop(names, <<>>)

\* the inner loop of step 1: `for folder in folders`
RECURSIVE CollectFolders(_, _, _)
CollectFolders(folders, raw, acc) ==
    IF folders = <<>> THEN acc
    ELSE LET f == Head(folders)
         IN  IF HasKey(raw, f)
             THEN CollectFolders(Tail(folders), raw,
                                 [svgs |-> acc.svgs \o Get(raw, f),
                                  used |-> acc.used \cup {f}])
             ELSE CollectFolders(Tail(folders), raw, acc)

\* step 1: `for category, folders in category_map.items()`
RECURSIVE ExplicitLoop(_, _, _)
ExplicitLoop(cmap, raw, acc) ==
    IF cmap = <<>> THEN acc
    ELSE LET got == CollectFolders(Head(cmap).val, raw,
                                   [svgs |-> <<>>, used |-> acc.used])
         IN  ExplicitLoop(Tail(cmap), raw,
                          [ui |-> IF got.svgs # <<>>
                                  THEN DictSet(acc.ui, Head(cmap).key, got.svgs)
                                  ELSE acc.ui,
                           used |-> got.used])

\* step 2: `for folder, svg_paths in raw_groups.items()`
RECURSIVE OtherLoop(_, _)
OtherLoop(raw, used) ==
    IF raw = <<>> THEN <<>>
    ELSE (IF Head(raw).key \in used THEN <<>> ELSE Head(raw).val)
         \o OtherLoop(Tail(raw), used)

OTHER_CATEGORY_NAME == "Other"

regroup_svgs_for_ui(names, cmap) ==
    LET raw == group_svgs_by_folder(names)
        one == ExplicitLoop(cmap, raw, [ui |-> <<>>, used |-> {}])
        other == OtherLoop(raw, one.used)
    IN  IF other # <<>>
        THEN DictSet(one.ui, OTHER_CATEGORY_NAME, other)
        ELSE one.ui

\* category map files (category -> folder names, in file order)
CategoryMaps ==
    { <<>>,
      <<Item("Geometry", <<"SOP">>)>>,
      <<Item("Geometry", <<"SOP">>), Item("Dynamics", <<"DOP">>)>>,
      <<Item("Geometry", <<"SOP">>), Item("All", <<"SOP", "DOP">>)>>,
      <<Item("Empty", <<"CHOP">>), Item("Dynamics", <<"DOP">>)>> }

(***************************************************************************)
(* The host: self._hou is None outside Houdini; inside, hou.qt.Icon(name)  *)
(* returns the icon or raises OperationFailed.  An icon name is the pair   *)
(* <<parent folder, stem>> that the code joins with "_".                   *)
(***************************************************************************)
Host(present, names) == [present |-> present, names |-> names]

Hosts ==
    { Host(FALSE, {}), Host(TRUE, {}), Host(TRUE, {<<"SOP", "box">>}) }

\* SvgZipListModel._make_houdini_icon_name
make_houdini_icon_name(m) ==
    << IF Len(m.parts) > 1 THEN m.parts[Len(m.parts) - 1] ELSE "",
       m.parts[Len(m.parts)] >>

(***************************************************************************)
(* One SvgZipListModel.  Rows are numbered from 1 here (from 0 in the      *)
(* code).  icons[r] is "none" while row r has no cached icon, else the     *)
(* source of the cached icon; running[r] counts the SvgIconWorkers of row  *)
(* r in the thread pool, signals[r] the finished signals queued for the UI *)
(* thread, scheduled[r] the workers ever started for the row.              *)
(***************************************************************************)
NewModel(paths) ==
    [paths |-> paths,
     icons |-> [r \in DOMAIN paths |-> "none"],
     loading |-> {},
     running |-> [r \in DOMAIN paths |-> 0],
     signals |-> [r \in DOMAIN paths |-> 0],
     scheduled |-> [r \in DOMAIN paths |-> 0]]

\* SvgZipListModel.rowCount
rowCount(m) == Len(m.paths)

\* SvgZipListModel.get_icon
get_icon(m, row) == m.icons[row]

\* SvgZipListModel._request_zip_icon: a worker goes to the thread pool
request_zip_icon(m, row) ==
    [m EXCEPT !.running[row] = @ + 1, !.scheduled[row] = @ + 1]

\* does SvgZipListModel._try_houdini_icon return True?
HoudiniHasIcon(m, row, h) ==
    h.present /\ make_houdini_icon_name(m.paths[row]) \in h.names

\* mutant: only the cache is consulted, not the loading set
AlreadyRequested_CacheOnly(m, row) == m.icons[row] # "none"

\* `if row in self._icons or row in self._loading: return`
AlreadyRequested(m, row) == m.icons[row] # "none" \/ row \in m.loading

\* mutant: the render task is created before the host is asked
request_icon_RenderFirst(m, row, h) ==
    IF AlreadyRequested(m, row) THEN m
    ELSE IF HoudiniHasIcon(m, row, h)
         THEN request_zip_icon([m EXCEPT !.icons[row] = "hou"], row)
         ELSE request_zip_icon([m EXCEPT !.loading = @ \cup {row}], row)

\* SvgZipListModel.request_icon
request_icon(m, row, h) ==
    IF AlreadyRequested(m, row) THEN m
    ELSE IF HoudiniHasIcon(m, row, h)
         THEN [m EXCEPT !.icons[row] = "hou"]
         ELSE request_zip_icon([m EXCEPT !.loading = @ \cup {row}], row)

\* mutant: the icon is cached but the row stays in the loading set
on_icon_ready_KeepLoading(m, row) == [m EXCEPT !.icons[row] = "zip"]

\* mutant: a cache that holds one icon and evicts the others
on_icon_ready_Evicting(m, row) ==
    [m EXCEPT !.icons = [r \in DOMAIN @ |-> IF r = row THEN "zip" ELSE "none"],
              !.loading = @ \ {row}]

\* SvgZipListModel._on_icon_ready
on_icon_ready(m, row) ==
    [m EXCEPT !.icons[row] = "zip", !.loading = @ \ {row}]

PRELOAD_LIMIT == 15

Min(a, b) == IF a < b THEN a ELSE b

\* SvgBrowserTab.preload_icons: `for row in range(min(limit, rowCount()))`
RECURSIVE PreloadLoop(_, _, _, _)
PreloadLoop(m, row, last, h) ==
    IF row > last THEN m
    ELSE PreloadLoop(request_icon(m, row, h), row + 1, last, h)

\* mutant: every row of the tab is requested
preload_icons_All(m, limit, h) == PreloadLoop(m, 1, rowCount(m), h)

preload_icons(m, limit, h) == PreloadLoop(m, 1, Min(limit, rowCount(m)), h)

Bump(n) == Min(n + 1, MaxRequests)

\* what the user types into the search box
SearchTexts == {"", "box"}

\* QRegularExpression(text, CaseInsensitive).match(name).hasMatch() for the
\* plain-word patterns of SearchTexts and the member names of the archives
HasMatch(text, m) ==
    \E i \in DOMAIN m.parts : m.parts[i] = text

\* SvgFilterProxyModel.filterAcceptsRow
filterAcceptsRow(pattern, m, row) ==
    IF pattern = "" THEN TRUE ELSE HasMatch(pattern, m.paths[row])

\* SvgBrowserTab.apply_search on tab t
apply_search(filters, t, text) == [filters EXCEPT ![t] = text]

(***************************************************************************)
(* The window: one tab and one model per category of the regrouped         *)
(* archive.  curTab is 0 until the first tab is added, which makes it      *)
(* current and emits currentChanged.                                       *)
(***************************************************************************)
WindowInit(names, cmaps) ==
    /\ \E cmap \in cmaps : tabs = regroup_svgs_for_ui(names, cmap)
    /\ hou \in Hosts
    /\ curTab = 0
    /\ preloaded = {}
    /\ models = [t \in DOMAIN tabs |-> NewModel(tabs[t].val)]
    /\ requests = [t \in DOMAIN tabs |-> [r \in DOMAIN tabs[t].val |-> 0]]
    /\ searchText = ""
    /\ tabFilter = [t \in DOMAIN tabs |-> ""]

IconInit == WindowInit(Archive, CategoryMaps)

Cells == UNION { { <<t, r>> : r \in DOMAIN models[t].paths } : t \in DOMAIN models }

\* mutant: the newly shown tab keeps the pattern it was left with
TabChanged_NoReapply(t) ==
    /\ t \in DOMAIN tabs
    /\ t # curTab
    /\ curTab = 0 => t = 1
    /\ curTab' = t
    /\ IF t \notin preloaded
       THEN /\ preloaded' = preloaded \cup {t}
            /\ models' = [models EXCEPT ![t] = preload_icons(@, PRELOAD_LIMIT, hou)]
            /\ requests' = [requests EXCEPT ![t] =
                   [r \in DOMAIN @ |->
                       IF r <= Min(PRELOAD_LIMIT, rowCount(models[t]))
                       THEN Bump(@[r]) ELSE @[r]]]
       ELSE UNCHANGED <<preloaded, models, requests>>
    /\ UNCHANGED <<tabs, hou, searchText, tabFilter>>
    /\ UNCHANGED notIcon

\* HoudiniIconBrowserWindow._on_tab_changed
TabChanged(t) ==
    /\ t \in DOMAIN tabs
    /\ t # curTab
    /\ curTab = 0 => t = 1
    /\ curTab' = t
    /\ IF t \notin preloaded
       THEN /\ preloaded' = preloaded \cup {t}
            /\ models' = [models EXCEPT ![t] = preload_icons(@, PRELOAD_LIMIT, hou)]
            /\ requests' = [requests EXCEPT ![t] =
                   [r \in DOMAIN @ |->
                       IF r <= Min(PRELOAD_LIMIT, rowCount(models[t]))
                       THEN Bump(@[r]) ELSE @[r]]]
       ELSE UNCHANGED <<preloaded, models, requests>>
    /\ tabFilter' = apply_search(tabFilter, t, searchText)
    /\ UNCHANGED <<tabs, hou, searchText>>
    /\ UNCHANGED notIcon

\* SvgIconDelegate._paint_icon for a cell of the visible tab
Paint(t, r) ==
    /\ t = curTab
    /\ r \in DOMAIN models[t].paths
    /\ filterAcceptsRow(tabFilter[t], models[t], r)
    /\ IF get_icon(models[t], r) = "none"
       THEN /\ models' = [models EXCEPT ![t] = request_icon(@, r, hou)]
            /\ requests' = [requests EXCEPT ![t][r] = Bump(@)]
       ELSE UNCHANGED <<models, requests>>
    /\ UNCHANGED <<tabs, hou, curTab, preloaded, searchText, tabFilter>>
    /\ UNCHANGED notIcon

\* SvgIconWorker.run ends with signals.finished.emit(row, image)
WorkerFinished(t, r) ==
    /\ <<t, r>> \in Cells
    /\ models[t].running[r] > 0
    /\ models' = [models EXCEPT ![t].running[r] = @ - 1, ![t].signals[r] = @ + 1]
    /\ UNCHANGED <<tabs, hou, curTab, preloaded, requests, searchText,
                   tabFilter>>
    /\ UNCHANGED notIcon

\* SvgIconWorker.run raises (the archive cannot be read): nothing is emitted
WorkerFailed(t, r) ==
    /\ <<t, r>> \in Cells
    /\ models[t].running[r] > 0
    /\ models' = [models EXCEPT ![t].running[r] = @ - 1]
    /\ UNCHANGED <<tabs, hou, curTab, preloaded, requests, searchText,
                   tabFilter>>
    /\ UNCHANGED notIcon

\* the queued finished signal reaches the slot _on_icon_ready
IconReady(t, r) ==
    /\ <<t, r>> \in Cells
    /\ models[t].signals[r] > 0
    /\ models' = [models EXCEPT ![t] =
                      on_icon_ready([@ EXCEPT !.signals[r] = @ - 1], r)]
    /\ UNCHANGED <<tabs, hou, curTab, preloaded, requests, searchText,
                   tabFilter>>
    /\ UNCHANGED notIcon

\* HoudiniIconBrowserWindow._on_search: the text of the search box changed
\* (the box is usable once the window is built, i.e. once the first tab
\* was added and made current)
Search(text) ==
    /\ curTab # 0 \/ tabs = <<>>
    /\ text # searchText
    /\ searchText' = text
    /\ tabFilter' = IF curTab # 0 THEN apply_search(tabFilter, curTab, text)
                     ELSE tabFilter
    /\ UNCHANGED <<tabs, hou, curTab, preloaded, models, requests>>
    /\ UNCHANGED notIcon

IconNext ==
    \/ \E t \in 1..Len(Archive) : TabChanged(t)
    \/ \E text \in SearchTexts : Search(text)
    \/ \E t \in 1..Len(Archive) : \E r \in 1..Len(Archive) : Paint(t, r)
    \/ \E t \in 1..Len(Archive) : \E r \in 1..Len(Archive) : WorkerFinished(t, r)
    \/ \E t \in 1..Len(Archive) : \E r \in 1..Len(Archive) : WorkerFailed(t, r)
    \/ \E t \in 1..Len(Archive) : \E r \in 1..Len(Archive) : IconReady(t, r)

IconIdle ==
    /\ tabs = <<>>
    /\ hou = Host(FALSE, {})
    /\ curTab = 0
    /\ preloaded = {}
    /\ models = <<>>
    /\ requests = <<>>
    /\ searchText = ""
    /\ tabFilter = <<>>

(***************************************************************************)
(* Properties of the icon cache                                            *)
(***************************************************************************)
\* render tasks of a cell that were dispatched and whose completion has not
\* yet reached the model
Outstanding(t, r) == models[t].running[r] + models[t].signals[r]

\* the cache key of a cell: its archive member (the archive and the icon
\* size are the same for every model of the window)
KeyOf(t, r) == models[t].paths[r]

CellsOfKey(k) == { cell \in Cells : KeyOf(cell[1], cell[2]) = k }

RECURSIVE SumOutstanding(_)
SumOutstanding(cells) ==
    IF cells = {} THEN 0
    ELSE LET cell == CHOOSE x \in cells : TRUE
         IN  Outstanding(cell[1], cell[2]) + SumOutstanding(cells \ {cell})

OutstandingForKey(k) == SumOutstanding(CellsOfKey(k))

CachedKey(k) == \E cell \in CellsOfKey(k) : models[cell[1]].icons[cell[2]] # "none"

ArchiveKeys == { Archive[i] : i \in DOMAIN Archive }

Cex_C11 ==
    \A cell \in Cells :
        cell[2] \in models[cell[1]].loading => Outstanding(cell[1], cell[2]) >= 1

\* the state of a cell as the claims name it
CellState(m, r) ==
    IF m.icons[r] # "none" THEN "ready"
    ELSE IF r \in m.loading THEN "loading" ELSE "unrequested"

\* C12: a cell never regresses.  In every step (icon request from paint or
\* preload, render completion, filtering, tab switch) a row that has a cached
\* icon keeps that icon and stays out of the loading set, and a row that is
\* loading does not become unrequested again.
Thm_C12 ==
    [][\A cell \in Cells :
          LET m == models[cell[1]]
              n == models'[cell[1]]
              r == cell[2]
          IN  /\ CellState(m, r) = "ready" =>
                    CellState(n, r) = "ready" /\ n.icons[r] = m.icons[r]
              /\ CellState(m, r) = "loading" =>
                    CellState(n, r) \in {"loading", "ready"}]_vars

\* C12 witness: the first tab holds a cached icon although, since its first
\* activation, another tab was activated, a filter was typed and the first
\* tab was activated again with that filter, and its cached row was painted.
Wit_C12 ==
    /\ curTab = 1
    /\ 2 \in preloaded
    /\ tabFilter[1] = "box"
    /\ \E r \in DOMAIN models[1].paths :
           /\ CellState(models[1], r) = "ready"
           /\ filterAcceptsRow(tabFilter[1], models[1], r)

(***************************************************************************)
(* Preloading a tab that is larger than the preload limit: an archive with *)
(* one more icon in folder SOP than the limit, and one icon in DOP.        *)
(***************************************************************************)
BigStems ==
    << "box", "n02", "n03", "n04", "n05", "n06", "n07", "n08", "n09", "n10",
       "n11", "n12", "n13", "n14", "n15", "n16", "n17", "n18", "n19", "n20" >>

BigArchive ==
    [i \in 1..(PRELOAD_LIMIT + 1) |-> Member(<<"SOP", BigStems[i]>>, "svg")]
    \o << Member(<<"DOP", "solver">>, "SVG") >>

PreloadInit == WindowInit(BigArchive, { <<Item("Geometry", <<"SOP">>)>> })

\* the rows whose paint and render events are followed: the first row, the
\* last row inside the preload limit and the first row beyond it (the
\* renders of the other rows stay in the thread pool)
WatchedRows == {1, PRELOAD_LIMIT, PRELOAD_LIMIT + 1}

PreloadNext ==
    \/ \E t \in 1..2 : TabChanged(t)
    \/ \E text \in SearchTexts : Search(text)
    \/ \E t \in 1..2 : \E r \in WatchedRows : Paint(t, r)
    \/ \E t \in 1..2 : \E r \in WatchedRows : WorkerFinished(t, r)
    \/ \E t \in 1..2 : \E r \in WatchedRows : WorkerFailed(t, r)
    \/ \E t \in 1..2 : \E r \in WatchedRows : IconReady(t, r)

\* what a model holds about one row
RowOf(m, r) ==
    [icon |-> m.icons[r], loading |-> r \in m.loading,
     scheduled |-> m.scheduled[r]]

\* C16: when a tab is activated for the first time only rows among its 15
\* leading rows are requested (never a row beyond them, so never the whole
\* group when it is larger); every later activation of the tab changes no
\* row; and preload_icons, applied to a model in any reachable state, leaves
\* every row that is cached or loading, and every row beyond the limit, as
\* it is.
Thm_C16 ==
    [][/\ \A t \in DOMAIN tabs :
             (curTab' = t /\ curTab # t) =>
                 IF t \in preloaded
                 THEN models'[t] = models[t] /\ preloaded' = preloaded
                 ELSE /\ \A r \in DOMAIN models[t].paths :
                            RowOf(models'[t], r) # RowOf(models[t], r)
                                => r <= PRELOAD_LIMIT
                      /\ Cardinality({ r \in DOMAIN models[t].paths :
                             RowOf(models'[t], r) # RowOf(models[t], r) })
                             <= PRELOAD_LIMIT
       /\ \A t \in DOMAIN tabs :
             LET after == preload_icons(models[t], PRELOAD_LIMIT, hou)
             IN  \A r \in DOMAIN models[t].paths :
                     (CellState(models[t], r) # "unrequested" \/ r > PRELOAD_LIMIT)
                         => RowOf(after, r) = RowOf(models[t], r)]_vars

\* C16 witness: the tab of more than 15 rows was activated, left and
\* activated again; its 15 leading rows are requested, the row after them
\* is not.
Wit_C16 ==
    /\ curTab = 1
    /\ 2 \in preloaded
    /\ rowCount(models[1]) > PRELOAD_LIMIT
    /\ \A r \in 1..PRELOAD_LIMIT : CellState(models[1], r) # "unrequested"
    /\ CellState(models[1], PRELOAD_LIMIT + 1) = "unrequested"

(***************************************************************************)
(* Category grouping as a function of the archive listing and the category *)
(* map file.                                                               *)
(***************************************************************************)
\* entries of an archive listing
MaxMembers == 3

Range(s) == { s[i] : i \in DOMAIN s }

ArchivePool == Range(Archive) \cup { Member(<<"DOP", "pop">>, "svg") }

\* zf.namelist(): up to MaxMembers distinct entries in any order
Listings ==
    { s \in UNION { [1..n -> ArchivePool] : n \in 0..MaxMembers } :
          \A i, j \in DOMAIN s : i # j => s[i] # s[j] }

\* category map files, among them maps that use the name "Other" themselves
GroupMaps ==
    CategoryMaps \cup
    { <<Item("Other", <<"SOP">>)>>,
      <<Item("Other", <<"SOP">>), Item("Dynamics", <<"DOP">>)>>,
      <<Item("Misc", <<"root">>)>> }

GroupIdle ==
    /\ grpArchive = <<>>
    /\ grpMap = <<>>
    /\ grpPc = "idle"
    /\ grpResult = <<>>

GroupInit ==
    /\ grpArchive \in Listings
    /\ grpMap \in GroupMaps
    /\ grpPc = "call"
    /\ grpResult = <<>>

\* groups = regroup_svgs_for_ui(zip_path, category_map_path)
Regroup ==
    /\ grpPc = "call"
    /\ grpPc' = "done"
    /\ grpResult' = regroup_svgs_for_ui(grpArchive, grpMap)
    /\ UNCHANGED <<grpArchive, grpMap>>
    /\ UNCHANGED notGroup

GroupNext == Regroup

\* the .svg entries of the listing that lie in a top-level folder
SvgsIn(folder) ==
    { m \in Range(grpArchive) : IsSvg(m) /\ FolderOf(m) = folder }

SvgFolders == { FolderOf(m) : m \in { x \in Range(grpArchive) : IsSvg(x) } }

NamedFolders == UNION { Range(grpMap[i].val) : i \in DOMAIN grpMap }

\* the returned category cat lists the entry m
Under(cat, m) == HasKey(grpResult, cat) /\ m \in Range(Get(grpResult, cat))

ResultKeys == [i \in DOMAIN grpResult |-> grpResult[i].key]

\* C13 (as claimed): in the result of regroup_svgs_for_ui the SVGs of every
\* folder named in the category map are under that map's category and the
\* SVGs of every folder not named in the map are under "Other"; with folders
\* SOP and DOP and the map {Geometry: [SOP]} the keys are [Geometry, Other]
\* and Other holds all DOP entries and no SOP entry.
Cex_C13 ==
    grpPc = "done" =>
        /\ \A i \in DOMAIN grpMap : \A f \in Range(grpMap[i].val) :
               \A m \in SvgsIn(f) : Under(grpMap[i].key, m)
        /\ \A f \in SvgFolders \ NamedFolders :
               \A m \in SvgsIn(f) : Under(OTHER_CATEGORY_NAME, m)
        /\ (SvgFolders = {"SOP", "DOP"} /\ grpMap = <<Item("Geometry", <<"SOP">>)>>)
               => /\ ResultKeys = <<"Geometry", OTHER_CATEGORY_NAME>>
                  /\ \A m \in SvgsIn("DOP") : Under(OTHER_CATEGORY_NAME, m)
                  /\ \A m \in SvgsIn("SOP") : ~Under(OTHER_CATEGORY_NAME, m)

(***************************************************************************)
(* WheelTabBar.  A QTabBar without tabs has currentIndex() = -1; with tabs *)
(* its current index is one of them.                                       *)
(***************************************************************************)
\* tabs on the bar
MaxTabs == 6

\* wheel events delivered to one bar
MaxWheelEvents == 3

\* event.angleDelta().y(): one notch is 120, smooth-scrolling devices send
\* less, fast scrolling sends several notches in one event
WheelDeltas == {-240, -120, -15, 0, 15, 120, 240}

Max(a, b) == IF a > b THEN a ELSE b

\* mutant: the selection moves by the number of notches scrolled
NextIndex_PerNotch(current, delta) ==
    IF delta > 0 THEN current - Max(1, delta \div 120)
    ELSE current + Max(1, (0 - delta) \div 120)

\* `if delta > 0: next_index = current - 1 else: next_index = current + 1`
NextIndex(current, delta) ==
    IF delta > 0 THEN current - 1 ELSE current + 1

\* mutant: the index is not clamped
Clamp_Open(n, count) == n

\* max(0, min(self.count() - 1, next_index))
Clamp(n, count) == Max(0, Min(count - 1, n))

\* WheelTabBar.wheelEvent: the current index after the event and whether the
\* event was accepted
wheelEvent(count, current, delta) ==
    IF count = 0 THEN [index |-> current, accepted |-> FALSE]
    ELSE IF delta = 0 THEN [index |-> current, accepted |-> FALSE]
    ELSE LET next_index == Clamp(NextIndex(current, delta), count)
         IN  [index |-> IF next_index # current THEN next_index ELSE current,
              accepted |-> TRUE]

WheelIdle ==
    /\ wtCount = 0
    /\ wtIndex = -1
    /\ wtPrev = -1
    /\ wtDelta = 0
    /\ wtAccepted = FALSE
    /\ wtEvents = 0

WheelInit ==
    /\ wtCount \in 0..MaxTabs
    /\ wtIndex \in IF wtCount = 0 THEN {-1} ELSE 0..(wtCount - 1)
    /\ wtPrev = wtIndex
    /\ wtDelta = 0
    /\ wtAccepted = FALSE
    /\ wtEvents = 0

\* Qt delivers a QWheelEvent to the bar
WheelEvent(delta) ==
    /\ wtEvents < MaxWheelEvents
    /\ LET after == wheelEvent(wtCount, wtIndex, delta)
       IN  /\ wtIndex' = after.index
           /\ wtAccepted' = after.accepted
    /\ wtPrev' = wtIndex
    /\ wtDelta' = delta
    /\ wtEvents' = wtEvents + 1
    /\ UNCHANGED wtCount
    /\ UNCHANGED notWheel

WheelNext == \E delta \in WheelDeltas : WheelEvent(delta)

\* C14: after any sequence of wheel events on a bar with at least one tab
\* the current index lies in [0, tabCount-1]; in particular scrolling up at
\* the first tab and scrolling down at the last tab leave the index there.
Thm_C14 ==
    wtCount >= 1 =>
        /\ wtIndex \in 0..(wtCount - 1)
        /\ (wtEvents >= 1 /\ wtDelta > 0 /\ wtPrev = 0) => wtIndex = 0
        /\ (wtEvents >= 1 /\ wtDelta < 0 /\ wtPrev = wtCount - 1)
               => wtIndex = wtCount - 1

\* C14 witness: after several events, the last one a scroll down at the last
\* of at least two tabs, the selection is still the last tab.
Wit_C14 ==
    /\ wtCount >= 2
    /\ wtEvents >= 2
    /\ wtDelta < 0
    /\ wtPrev = wtCount - 1
    /\ wtIndex = wtCount - 1

\* C15: one wheel event moves the selection by at most one tab in the
\* direction of the scroll: a negative delta gives min(current+1, count-1),
\* a positive delta max(current-1, 0), and a zero delta or a bar without
\* tabs leaves the current index unchanged (-1 for the empty bar).
Thm_C15 ==
    wtEvents >= 1 =>
        /\ wtCount = 0 => wtIndex = -1 /\ wtPrev = -1
        /\ (wtCount >= 1 /\ wtDelta < 0) => wtIndex = Min(wtPrev + 1, wtCount - 1)
        /\ (wtCount >= 1 /\ wtDelta > 0) => wtIndex = Max(wtPrev - 1, 0)
        /\ wtDelta = 0 => wtIndex = wtPrev

\* C15 witness: an event of two notches moved the selection back by exactly
\* one tab from a tab that has two tabs before it.
Wit_C15 ==
    /\ wtEvents >= 1
    /\ wtDelta = 240
    /\ wtPrev >= 2
    /\ wtIndex = wtPrev - 1

(***************************************************************************)
(* Host operations: toggling the viewport background (ops/viewport.py and  *)
(* the hotkey script) and creating a node from the node palette            *)
(* (ops/create_node.py).  host.panes are the pane tab types open on the    *)
(* current desktop, host.cursor the type of the pane tab under the cursor  *)
(* ("none" when there is none).                                            *)
(***************************************************************************)
\* operations invoked by the operator
MaxHostOps == 3

PaneTypes == {"NetworkEditor", "SceneViewer", "Parm"}

ColorSchemes == {"Dark", "Grey", "Light"}

\* pane = hou.ui.paneTabUnderCursor(); if it is not of the wanted type,
\* pane = hou.ui.curDesktop().paneTabOfType(type).  TRUE when a pane is found.
FindPane(h, type) == h.cursor = type \/ type \in h.panes

\* Dark -> Grey -> Light -> Dark
NextScheme(c) ==
    IF c = "Dark" THEN "Grey" ELSE IF c = "Grey" THEN "Light" ELSE "Dark"

\* what an operation leaves behind: the host after it and whether it raised
Outcome(h, exc) == [host |-> h, raised |-> exc]

\* ops.viewport.toggle_viewport_background
toggle_viewport_background(h) ==
    IF ~FindPane(h, "SceneViewer")
    THEN Outcome([h EXCEPT !.errors = @ + 1, !.dialogs = @ + 1], TRUE)
    ELSE Outcome([h EXCEPT !.scheme = NextScheme(@)], FALSE)

\* hotkeys/toggle_viewport_background.py
hotkey_toggle_viewport_background(h) ==
    IF ~FindPane(h, "SceneViewer")
    THEN Outcome([h EXCEPT !.dialogs = @ + 1], TRUE)
    ELSE Outcome([h EXCEPT !.scheme = NextScheme(@)], FALSE)

\* ops.create_node.create_node
create_node(h) ==
    IF ~FindPane(h, "NetworkEditor")
    THEN Outcome([h EXCEPT !.errors = @ + 1], TRUE)
    ELSE Outcome([h EXCEPT !.nodes = @ + 1], FALSE)

HostOpNames == {"toggle", "hotkey", "create_node"}

Apply(op, h) ==
    IF op = "toggle" THEN toggle_viewport_background(h)
    ELSE IF op = "hotkey" THEN hotkey_toggle_viewport_background(h)
    ELSE create_node(h)

Wanted(op) == IF op = "create_node" THEN "NetworkEditor" ELSE "SceneViewer"

NoHostOp ==
    [op |-> "none", found |-> TRUE, raised |-> FALSE, dialog |-> FALSE,
     changed |-> FALSE]

HostIdle ==
    /\ host = [panes |-> {}, cursor |-> "none", scheme |-> "Dark", nodes |-> 0,
               dialogs |-> 0, errors |-> 0]
    /\ hostLast = NoHostOp
    /\ hostOps = 0

HostInit ==
    /\ \E ps \in SUBSET PaneTypes : \E c \in ps \cup {"none"} :
       \E sc \in ColorSchemes :
           host = [panes |-> ps, cursor |-> c, scheme |-> sc, nodes |-> 0,
                   dialogs |-> 0, errors |-> 0]
    /\ hostLast = NoHostOp
    /\ hostOps = 0

\* the operator presses the hotkey, runs the shelf tool or clicks an item of
\* the node palette
HostOp(op) ==
    /\ hostOps < MaxHostOps
    /\ LET out == Apply(op, host)
       IN  /\ host' = out.host
           /\ hostLast' = [op |-> op,
                           found |-> FindPane(host, Wanted(op)),
                           raised |-> out.raised,
                           dialog |-> out.host.dialogs > host.dialogs,
                           changed |-> \/ out.host.scheme # host.scheme
                                       \/ out.host.nodes # host.nodes]
    /\ hostOps' = hostOps + 1
    /\ UNCHANGED notHost

\* the operator moves the mouse over another pane tab, or off all of them
MoveCursor(c) ==
    /\ c \in host.panes \cup {"none"}
    /\ c # host.cursor
    /\ host' = [host EXCEPT !.cursor = c]
    /\ UNCHANGED <<hostLast, hostOps>>
    /\ UNCHANGED notHost

HostNext ==
    \/ \E op \in HostOpNames : HostOp(op)
    \/ \E c \in PaneTypes \cup {"none"} : MoveCursor(c)

\* C17 (as claimed): whenever an operation finds no Scene Viewer (viewport
\* background toggle) or no Network Editor (node creation), the operator is
\* shown a dialog and the operation is aborted with an error, having changed
\* no colour scheme and created no node.
Cex_C17 ==
    ~hostLast.found =>
        hostLast.dialog /\ hostLast.raised /\ ~hostLast.changed

(***************************************************************************)
(* get_qapplication.  QCoreApplication.instance() is NoApp, a              *)
(* QCoreApplication that is not a QApplication (kind "core"), or a         *)
(* QApplication (kind "qapp"); id tells application objects apart, argv is *)
(* what the application was constructed with.                              *)
(***************************************************************************)
\* calls of get_qapplication in one process
MaxAppCalls == 3

App(kind, id, argv) == [kind |-> kind, id |-> id, argv |-> argv]

NoApp == App("none", 0, "none")

\* the argv argument: None, an empty list, a list of arguments
Argvs == {"None", "empty", "tool"}

\* `argv or sys.argv`
ArgvOrSys(argv) == IF argv \in {"None", "empty"} THEN "sys.argv" ELSE argv

\* mutant: with create_if_missing a new application is made in any case
get_qapplication_AlwaysNew(app, created, create_if_missing, argv) ==
    IF create_if_missing
    THEN LET new == App("qapp", created + 1, ArgvOrSys(argv))
         IN  [app |-> new, created |-> created + 1, ret |-> new,
              raised |-> "none"]
    ELSE [app |-> app, created |-> created, ret |-> app,
          raised |-> IF app.kind = "qapp" THEN "none" ELSE "QtApplicationError"]

\* get_qapplication: the application of the process after the call, the
\* number of applications constructed so far, and what the call returned or
\* raised
get_qapplication(app, created, create_if_missing, argv) ==
    IF app = NoApp
    THEN IF ~create_if_missing
         THEN [app |-> app, created |-> created, ret |-> NoApp,
               raised |-> "QtApplicationError"]
         ELSE LET new == App("qapp", created + 1, ArgvOrSys(argv))
              IN  [app |-> new, created |-> created + 1, ret |-> new,
                   raised |-> "none"]
    ELSE IF app.kind # "qapp"
         THEN [app |-> app, created |-> created, ret |-> NoApp,
               raised |-> "QtApplicationError"]
         ELSE [app |-> app, created |-> created, ret |-> app, raised |-> "none"]

QtIdle ==
    /\ qtApp = NoApp
    /\ qtCreated = 0
    /\ qtLog = <<>>

\* standalone scripts start without an application; a host (Houdini, a test
\* fixture) has made its own before any tool runs
QtInit ==
    /\ qtApp \in {NoApp, App("core", 0, "host"), App("qapp", 0, "host")}
    /\ qtCreated = 0
    /\ qtLog = <<>>

GetQApplication(create_if_missing, argv) ==
    /\ Len(qtLog) < MaxAppCalls
    /\ LET out == get_qapplication(qtApp, qtCreated, create_if_missing, argv)
       IN  /\ qtApp' = out.app
           /\ qtCreated' = out.created
           /\ qtLog' = Append(qtLog, [before |-> qtApp, after |-> out.app,
                                      cim |-> create_if_missing,
                                      argv |-> argv,
                                      made |-> out.created - qtCreated,
                                      ret |-> out.ret, raised |-> out.raised])
    /\ UNCHANGED notQt

QtNext ==
    \E create_if_missing \in BOOLEAN : \E argv \in Argvs :
        GetQApplication(create_if_missing, argv)

\* C18: get_qapplication returns the already existing QApplication whenever
\* one exists, whatever create_if_missing is, and constructs none then; when
\* no application exists it constructs (and returns) one if create_if_missing
\* is true and otherwise raises QtApplicationError and constructs none.  No
\* process ends up with a second application.
Thm_C18 ==
    /\ \A i \in DOMAIN qtLog :
          LET c == qtLog[i]
          IN  /\ c.before.kind = "qapp" =>
                    c.ret = c.before /\ c.raised = "none" /\ c.made = 0
                    /\ c.after = c.before
              /\ (c.before = NoApp /\ c.cim) =>
                    c.made = 1 /\ c.raised = "none" /\ c.after.kind = "qapp"
                    /\ c.ret = c.after
              /\ (c.before = NoApp /\ ~c.cim) =>
                    c.raised = "QtApplicationError" /\ c.made = 0
                    /\ c.after = NoApp
              /\ c.made = 1 => c.cim /\ c.before = NoApp
    /\ qtCreated <= 1
    /\ qtCreated = 1 => (qtLog # <<>> /\ qtLog[1].before = NoApp)

\* C18 witness: a process that started without an application called
\* get_qapplication three times: refused without create_if_missing, created
\* with it, and then got the same application back without it.
Wit_C18 ==
    /\ Len(qtLog) = 3
    /\ qtLog[1].raised = "QtApplicationError"
    /\ qtLog[2].made = 1
    /\ ~qtLog[3].cim /\ qtLog[3].ret = qtLog[2].ret /\ qtLog[3].made = 0

(***************************************************************************)
(* QssLoader.  A path is the sequence of its segments from the file system *)
(* root.  The text of a QSS file is a sequence of tokens: a piece of style *)
(* text that remembers the file it was written in, or one                  *)
(* `@import url("...");` rule with the path it names.                      *)
(***************************************************************************)
\* @import rules in the main file
MaxImports == 2

QssRoot == <<"app", "data">>

TextOf(path) == [kind |-> "text", from |-> path, abs |-> FALSE, segs |-> <<>>]

Import(abs, segs) == [kind |-> "import", from |-> <<>>, abs |-> abs, segs |-> segs]

\* a file name longer than the file system allows
LongName == "long-name-of-300-characters.qss"

\* the regular files on disk
QssFiles ==
    { <<"app", "data", "main.qss">>,
      <<"app", "data", "base.qss">>,
      <<"app", "data", "chain.qss">>,
      <<"app", "data", "sub", "main.qss">>,
      <<"app", "data", "sub", "inner.qss">>,
      <<"app", "data", "sub", "base.qss">>,
      <<"app", "evil.qss">>,
      <<"app", "data2", "sib.qss">> }

\* a symbolic link inside the root that points out of it
LinkPath == <<"app", "data", "link.qss">>

LinkTarget == <<"app", "evil.qss">>

\* target.read_text() of the files that can be imported
ReadText(path) ==
    IF path = <<"app", "data", "sub", "inner.qss">>
    THEN << TextOf(path), Import(FALSE, <<"..", "..", "evil.qss">>) >>
    ELSE IF path = <<"app", "data", "chain.qss">>
    THEN << TextOf(path), Import(FALSE, <<"base.qss">>) >>
    ELSE << TextOf(path) >>

\* the paths written in @import rules
ImportRules ==
    { Import(FALSE, <<"base.qss">>),
      Import(FALSE, <<"chain.qss">>),
      Import(FALSE, <<"sub", "inner.qss">>),
      Import(FALSE, <<"..", "evil.qss">>),
      Import(FALSE, <<"..", "..", "evil.qss">>),
      Import(TRUE, <<"app", "evil.qss">>),
      Import(FALSE, <<"link.qss">>),
      Import(FALSE, <<"..", "data2", "sib.qss">>),
      Import(FALSE, <<"missing.qss">>),
      Import(FALSE, <<"sub">>),
      Import(FALSE, <<LongName>>) }

\* removing "." and ".." segments, as Path.resolve() does
RECURSIVE Normalize(_, _)
Normalize(segs, acc) ==
    IF segs = <<>> THEN acc
    ELSE IF Head(segs) = ".."
         THEN Normalize(Tail(segs),
                        IF acc = <<>> THEN acc ELSE SubSeq(acc, 1, Len(acc) - 1))
         ELSE Normalize(Tail(segs), Append(acc, Head(segs)))

\* base_dir / relative_path: an absolute right operand replaces the left one
Join(base, rule) == IF rule.abs THEN rule.segs ELSE base \o rule.segs

\* Path.resolve(): normalised, symbolic links followed
Resolve(path) ==
    LET n == Normalize(path, <<>>)
    IN  IF n = LinkPath THEN LinkTarget ELSE n

\* Path.is_file(): TRUE, FALSE, or the OSError that os.stat raises for a
\* name the file system rejects (pathlib swallows only ENOENT, ENOTDIR,
\* EBADF and ELOOP)
is_file(path) ==
    IF \E i \in DOMAIN path : path[i] = LongName THEN "OSError"
    ELSE IF path \in QssFiles THEN "yes" ELSE "no"

\* PurePath.is_relative_to: root is a leading run of whole segments
is_relative_to(path, root) ==
    /\ Len(path) >= Len(root)
    /\ SubSeq(path, 1, Len(root)) = root

\* str.replace(old, new) on token sequences: every occurrence is replaced
RECURSIVE ReplaceAll(_, _, _)
ReplaceAll(content, old, new) ==
    IF content = <<>> THEN <<>>
    ELSE (IF Head(content) = old THEN new ELSE <<Head(content)>>)
         \o ReplaceAll(Tail(content), old, new)

Loaded(content) == [kind |-> "ok", content |-> content, exc |-> "none"]

Raises(exc) == [kind |-> "raise", content |-> <<>>, exc |-> exc]

\* IMPORT_RULE.pattern.finditer(content): the rules of the text as it was
\* when the loop started
Matches(content) == SelectSeq(content, LAMBDA tok : tok.kind = "import")

\* QssLoader._resolve_imports: the loop over the matches
RECURSIVE ResolveLoop(_, _, _, _)
ResolveLoop(matches, content, base_dir, root) ==
    IF matches = <<>> THEN Loaded(content)
    ELSE LET target == Resolve(Join(base_dir, Head(matches)))
         IN  IF is_file(target) = "OSError" THEN Raises("OSError")
             ELSE IF is_file(target) = "no" THEN Raises("QssLoaderError")
             ELSE IF ~is_relative_to(target, root) THEN Raises("QssLoaderError")
             ELSE ResolveLoop(Tail(matches),
                              ReplaceAll(content, Head(matches), ReadText(target)),
                              base_dir, root)

resolve_imports(content, base_dir, root) ==
    ResolveLoop(Matches(content), content, base_dir, root)

\* QssLoader._expand_root_variables rewrites inside style text (it drops
\* :root blocks and substitutes var(--name)); it reads no file and leaves
\* @import rules alone
expand_root_variables(content) == content

Parent(path) == SubSeq(path, 1, Len(path) - 1)

\* QssLoader(root).load(path), text being what path.read_text() returns
load(root, path, text) ==
    LET p == Resolve(path)
    IN  IF is_file(p) # "yes" THEN Raises("QssLoaderError")
        ELSE LET r == resolve_imports(text, Parent(p), Resolve(root))
             IN  IF r.kind = "raise" THEN r
                 ELSE Loaded(expand_root_variables(r.content))

QssIdle ==
    /\ qssMain = <<>>
    /\ qssText = <<>>
    /\ qssPc = "idle"
    /\ qssResult = Loaded(<<>>)

\* a main file in the root or in a folder of it, with up to MaxImports rules
\* after its own text
QssInit ==
    /\ qssMain \in { <<"app", "data", "main.qss">>,
                      <<"app", "data", "sub", "main.qss">> }
    /\ \E n \in 0..MaxImports : \E rules \in [1..n -> ImportRules] :
           qssText = <<TextOf(qssMain)>> \o rules
    /\ qssPc = "call"
    /\ qssResult = Loaded(<<>>)

QssLoad ==
    /\ qssPc = "call"
    /\ qssPc' = "done"
    /\ qssResult' = load(QssRoot, qssMain, qssText)
    /\ UNCHANGED <<qssMain, qssText>>
    /\ UNCHANGED notQss

QssNext == QssLoad

\* the file an @import rule of the main file resolves to
TargetOf(rule) == Resolve(Join(Parent(qssMain), rule))

InsideRoot(path) ==
    Len(path) > Len(QssRoot) /\ \A i \in DOMAIN QssRoot : path[i] = QssRoot[i]

Exists(path) == path \in QssFiles

\* C19 (as claimed): load returns no text of a file other than the main file
\* unless that file lies under the loader's root, and it raises
\* QssLoaderError whenever the main file has an @import whose resolved
\* target is outside the root or does not exist.
Cex_C19 ==
    qssPc = "done" =>
        /\ qssResult.kind = "ok" =>
               \A i \in DOMAIN qssResult.content :
                   LET tok == qssResult.content[i]
                   IN  tok.kind = "text" =>
                           tok.from = qssMain \/ InsideRoot(tok.from)
        /\ (\E i \in DOMAIN qssText :
                /\ qssText[i].kind = "import"
                /\ ~InsideRoot(TargetOf(qssText[i])) \/ ~Exists(TargetOf(qssText[i])))
               => qssResult.kind = "raise" /\ qssResult.exc = "QssLoaderError"

(***************************************************************************)
(* SendPythonServer._execute and the scope of its redirection.             *)
(* `with redirect_stdout(a), redirect_stderr(b): exec(...)` enters the two *)
(* context managers in order, runs the code and leaves them in reverse     *)
(* order however the code ends.  Entering saves the current sys.<stream>   *)
(* and installs the buffer; leaving installs the saved stream again.       *)
(* Submitted code may itself rebind sys.stdout or sys.stderr.              *)
(***************************************************************************)
\* _execute calls made one after the other
MaxExecs == 2

StdoutBuf == "stdout_buf"

StderrBuf == "stderr_buf"

\* what sys.stdout / sys.stderr can be before a request
HostStreams == {"tty", "hou_console"}

Streams(out, err) == [stdout |-> out, stderr |-> err]

\* programs of the bridge plus programs that rebind a stream themselves
ExecPrograms ==
    Programs \cup
    { <<Stmt("rebind", "stdout", "devnull")>>,
      <<Stmt("rebind", "stderr", "devnull"), Stmt("raise", "", "Exception")>>,
      <<Stmt("rebind", "stdout", "devnull"), Stmt("raise", "", "SystemExit")>>,
      <<Stmt("print", "stdout", ""), Stmt("rebind", "stdout", "devnull"),
        Stmt("print", "stdout", "")>> }

\* one statement with sys.stdout / sys.stderr as they are at that moment:
\* print writes to whatever stream the name is bound to
ExecStmtSys(s, st) ==
    CASE s.op = "rebind" -> [st EXCEPT !.sys[s.name] = s.val]
      [] s.op = "print"  ->
            CASE st.sys[s.name] = StdoutBuf -> [st EXCEPT !.out = Append(@, "text")]
              [] st.sys[s.name] = StderrBuf -> [st EXCEPT !.err = Append(@, "text")]
              [] OTHER                      -> st
      [] OTHER           -> ExecStmt(s, st)

RECURSIVE RunCodeSys(_, _)
RunCodeSys(code, st) ==
    IF code = <<>> \/ st.exc # "none"
    THEN st
    ELSE RunCodeSys(Tail(code), ExecStmtSys(Head(code), st))

\* _RedirectStream.__enter__
enter_redirect(sys, old, stream, buf) ==
    [sys |-> [sys EXCEPT ![stream] = buf],
     old |-> [old EXCEPT ![stream] = Append(@, sys[stream])]]

\* mutant: the stream is put back only when the code ended normally
exit_redirect_OnSuccess(sys, old, stream, exc) ==
    [sys |-> IF exc = "none"
             THEN [sys EXCEPT ![stream] = old[stream][Len(old[stream])]]
             ELSE sys,
     old |-> [old EXCEPT ![stream] = SubSeq(@, 1, Len(@) - 1)]]

\* _RedirectStream.__exit__, run by `with` on every way out of the block
exit_redirect(sys, old, stream, exc) ==
    [sys |-> [sys EXCEPT ![stream] = old[stream][Len(old[stream])]],
     old |-> [old EXCEPT ![stream] = SubSeq(@, 1, Len(@) - 1)]]

NoRun == [g |-> EmptyNs, l |-> EmptyNs, out |-> <<>>, err |-> <<>>,
          exc |-> "none", sys |-> Streams("", "")]

NoOutcome == [kind |-> "none", response |-> Response("", <<>>, <<>>, PyNone)]

ExecIdle ==
    /\ exPc = "idle"
    /\ exCode = <<>>
    /\ exSys = Streams("tty", "tty")
    /\ exOld = Streams(<<>>, <<>>)
    /\ exSt = NoRun
    /\ exBefore = Streams("tty", "tty")
    /\ exResp = NoOutcome
    /\ exRuns = 0

ExecInit ==
    /\ exPc = "idle"
    /\ exCode = <<>>
    /\ \E o \in HostStreams, e \in HostStreams :
            /\ exSys = Streams(o, e)
            /\ exBefore = Streams(o, e)
    /\ exOld = Streams(<<>>, <<>>)
    /\ exSt = NoRun
    /\ exResp = NoOutcome
    /\ exRuns = 0

\* _execute(code) is entered: server.py:103-107
ExecCall(code) ==
    /\ exPc = "idle"
    /\ exRuns < MaxExecs
    /\ exCode' = code
    /\ exBefore' = exSys
    /\ exSt' = NoRun
    /\ exResp' = NoOutcome
    /\ exRuns' = exRuns + 1
    /\ exPc' = "enter_stdout"
    /\ UNCHANGED <<exSys, exOld>>
    /\ UNCHANGED notExec

EnterStdout ==
    /\ exPc = "enter_stdout"
    /\ LET r == enter_redirect(exSys, exOld, "stdout", StdoutBuf)
       IN  exSys' = r.sys /\ exOld' = r.old
    /\ exPc' = "enter_stderr"
    /\ UNCHANGED <<exCode, exSt, exBefore, exResp, exRuns>>
    /\ UNCHANGED notExec

EnterStderr ==
    /\ exPc = "enter_stderr"
    /\ LET r == enter_redirect(exSys, exOld, "stderr", StderrBuf)
       IN  exSys' = r.sys /\ exOld' = r.old
    /\ exPc' = "exec"
    /\ UNCHANGED <<exCode, exSt, exBefore, exResp, exRuns>>
    /\ UNCHANGED notExec

\* exec(code, globals(), local_ns) inside the with block
ExecBody ==
    /\ exPc = "exec"
    /\ LET st == RunCodeSys(exCode, [NoRun EXCEPT !.sys = exSys])
       IN  exSt' = st /\ exSys' = st.sys
    /\ exPc' = "exit_stderr"
    /\ UNCHANGED <<exCode, exOld, exBefore, exResp, exRuns>>
    /\ UNCHANGED notExec

ExitStderr ==
    /\ exPc = "exit_stderr"
    /\ LET r == exit_redirect(exSys, exOld, "stderr", exSt.exc)
       IN  exSys' = r.sys /\ exOld' = r.old
    /\ exPc' = "exit_stdout"
    /\ UNCHANGED <<exCode, exSt, exBefore, exResp, exRuns>>
    /\ UNCHANGED notExec

ExitStdout ==
    /\ exPc = "exit_stdout"
    /\ LET r == exit_redirect(exSys, exOld, "stdout", exSt.exc)
       IN  exSys' = r.sys /\ exOld' = r.old
    /\ exPc' = "leave"
    /\ UNCHANGED <<exCode, exSt, exBefore, exResp, exRuns>>
    /\ UNCHANGED notExec

\* the three ways out of _execute: return ok (113-120), return error from
\* `except Exception` (122-128), or an exception that is not an Exception
ExecLeave ==
    /\ exPc = "leave"
    /\ exResp' =
         CASE exSt.exc = "none" ->
                [kind |-> "return",
                 response |-> Response("ok", exSt.out, exSt.err, GetResult(exSt.l))]
           [] IsException(exSt.exc) ->
                [kind |-> "return",
                 response |-> Response("error", exSt.out, Traceback(exSt.exc), PyNone)]
           [] OTHER ->
                [kind |-> "propagate",
                 response |-> Response("", <<>>, <<>>, PyNone)]
    /\ exPc' = "idle"
    /\ UNCHANGED <<exCode, exSys, exOld, exSt, exBefore, exRuns>>
    /\ UNCHANGED notExec

ExecNext ==
    \/ \E code \in ExecPrograms : ExecCall(code)
    \/ EnterStdout
    \/ EnterStderr
    \/ ExecBody
    \/ ExitStderr
    \/ ExitStdout
    \/ ExecLeave

Rebinds(code) == \E i \in DOMAIN code : code[i].op = "rebind"

\* C21: the redirection is in force when the submitted code starts to run,
\* and whenever _execute is not running (before a request, and after it
\* has returned ok, returned error or let an exception through) sys.stdout
\* and sys.stderr are the streams they were before the request.
Thm_C21 ==
    /\ exPc = "exec" => exSys = Streams(StdoutBuf, StderrBuf)
    /\ exPc \in {"idle", "leave"} => exSys = exBefore /\ exOld = Streams(<<>>, <<>>)

\* a request whose code rebinds sys.stdout and ends with SystemExit has
\* left _execute
Wit_C21 ==
    /\ exPc = "idle"
    /\ exResp.kind = "propagate"
    /\ Rebinds(exCode)
    /\ exSys = exBefore

(***************************************************************************)
(* Order of the host lookup and the render task                            *)
(***************************************************************************)
\* a cache miss: request_icon gets past its guard
Miss(m, r) == m.icons[r] = "none" /\ r \notin m.loading

\* C22: on a cache miss the host icon is tried first.  In every step, a
\* cell whose icon the host supplies goes from miss to cached ("hou"), is
\* not left in the loading set and gets no render task; a render task is
\* added to a cell only on a miss for which the host has no icon (or there
\* is no host), and that cell is then loading.
Thm_C22 ==
    [][\A t \in DOMAIN models : \A r \in DOMAIN models[t].paths :
          LET m == models[t]
              n == models'[t]
              asked == Miss(m, r) /\ ~Miss(n, r)
          IN  /\ asked /\ HoudiniHasIcon(m, r, hou) =>
                    /\ n.icons[r] = "hou"
                    /\ r \notin n.loading
                    /\ n.scheduled[r] = m.scheduled[r]
                    /\ n.running[r] = m.running[r]
              /\ asked /\ ~HoudiniHasIcon(m, r, hou) =>
                    /\ n.icons[r] = "none"
                    /\ r \in n.loading
                    /\ n.scheduled[r] = m.scheduled[r] + 1
              /\ n.scheduled[r] # m.scheduled[r] =>
                    asked /\ ~HoudiniHasIcon(m, r, hou)
              /\ n.icons[r] = "hou" /\ m.icons[r] # "hou" =>
                    asked /\ HoudiniHasIcon(m, r, hou)]_vars

\* one cell was served by the host without a render task while another
\* cell of the window got a render task
Wit_C22 ==
    \E c \in Cells, d \in Cells :
        /\ models[c[1]].icons[c[2]] = "hou"
        /\ models[c[1]].scheduled[c[2]] = 0
        /\ c[2] \notin models[c[1]].loading
        /\ models[d[1]].scheduled[d[2]] > 0

(***************************************************************************)
(* Shape of the regrouped result                                           *)
(***************************************************************************)
\* C23 (as claimed): for every archive and every category map, in the
\* result of regroup_svgs_for_ui the category "Other", when present, is the
\* last key, and no returned category has an empty list.
Cex_C23 ==
    grpPc = "done" =>
        /\ HasKey(grpResult, OTHER_CATEGORY_NAME) =>
               grpResult[Len(grpResult)].key = OTHER_CATEGORY_NAME
        /\ \A i \in DOMAIN grpResult : grpResult[i].val # <<>>

\* C28 (as claimed): regroup_svgs_for_ui loses no icon: for every archive
\* and every category map, each .svg entry of the archive appears in the
\* list of at least one returned category.
Cex_C28 ==
    grpPc = "done" =>
        \A m \in Range(grpArchive) :
            IsSvg(m) => \E i \in DOMAIN grpResult : m \in Range(grpResult[i].val)

(***************************************************************************)
(* Singleton.__new__ (libs/core/utility.py).  _instances and _locks are    *)
(* class attributes of Singleton, shared by all subclasses and keyed by    *)
(* the class.  One dict operation (`in`, setdefault, item assignment, item *)
(* read) is one step; threads interleave between them.  An absent key is 0.*)
(***************************************************************************)
\* threads that construct singletons, and constructions each of them makes
MaxThreads == 2

MaxConstructs == 1

SnThreads == 1..MaxThreads

\* subclasses of Singleton: the logger factory of the repository and a
\* subclass that defines __class_init__
SnClasses == {"PixelPouchLoggerFactory", "WithClassInit"}

HasClassInit(cls) == cls = "WithClassInit"

SingletonIdle ==
    /\ snInstances = [c \in SnClasses |-> 0]
    /\ snLocks = [c \in SnClasses |-> 0]
    /\ snHeld = {}
    /\ snMade = [c \in SnClasses |-> {}]
    /\ snInits = [c \in SnClasses |-> 0]
    /\ snReturned = [c \in SnClasses |-> {}]
    /\ snPc = [t \in SnThreads |-> "idle"]
    /\ snCls = [t \in SnThreads |-> "PixelPouchLoggerFactory"]
    /\ snLock = [t \in SnThreads |-> 0]
    /\ snLocal = [t \in SnThreads |-> 0]
    /\ snCalls = [t \in SnThreads |-> 0]
    /\ snNextLock = 1
    /\ snNextInst = 1

SingletonInit == SingletonIdle

\* `cls not in cls._instances` at line 31
FirstCheck(instances, cls) == instances[cls] = 0

\* mutant: no second look once the lock is held
LockedCheck_Skipped(instances, cls) == TRUE

\* `cls not in cls._instances` at line 34, under the lock
LockedCheck(instances, cls) == instances[cls] = 0

\* cls(...) is called: __new__ starts
Construct(t, cls) ==
    /\ snPc[t] = "idle"
    /\ snCalls[t] < MaxConstructs
    /\ snCalls' = [snCalls EXCEPT ![t] = @ + 1]
    /\ snCls' = [snCls EXCEPT ![t] = cls]
    /\ snPc' = [snPc EXCEPT ![t] = "check"]
    /\ UNCHANGED <<snInstances, snLocks, snHeld, snMade, snInits, snReturned,
                   snLock, snLocal, snNextLock, snNextInst>>
    /\ UNCHANGED notSingleton

\* line 31
SnCheck(t) ==
    /\ snPc[t] = "check"
    /\ snPc' = [snPc EXCEPT ![t] =
                   IF FirstCheck(snInstances, snCls[t]) THEN "setdefault"
                   ELSE "return"]
    /\ UNCHANGED <<snInstances, snLocks, snHeld, snMade, snInits, snReturned,
                   snCls, snLock, snLocal, snCalls, snNextLock, snNextInst>>
    /\ UNCHANGED notSingleton

\* line 32: a new Lock is made each time, the dict keeps the first one
SnSetDefault(t) ==
    /\ snPc[t] = "setdefault"
    /\ LET cls == snCls[t]
           kept == IF snLocks[cls] = 0 THEN snNextLock ELSE snLocks[cls]
       IN  /\ snLocks' = [snLocks EXCEPT ![cls] = kept]
           /\ snLock' = [snLock EXCEPT ![t] = kept]
    /\ snNextLock' = snNextLock + 1
    /\ snPc' = [snPc EXCEPT ![t] = "acquire"]
    /\ UNCHANGED <<snInstances, snHeld, snMade, snInits, snReturned, snCls,
                   snLocal, snCalls, snNextInst>>
    /\ UNCHANGED notSingleton

\* line 33: `with lock:` blocks until the lock is free
SnAcquire(t) ==
    /\ snPc[t] = "acquire"
    /\ snLock[t] \notin snHeld
    /\ snHeld' = snHeld \cup {snLock[t]}
    /\ snPc' = [snPc EXCEPT ![t] = "locked_check"]
    /\ UNCHANGED <<snInstances, snLocks, snMade, snInits, snReturned, snCls,
                   snLock, snLocal, snCalls, snNextLock, snNextInst>>
    /\ UNCHANGED notSingleton

\* line 34
SnLockedCheck(t) ==
    /\ snPc[t] = "locked_check"
    /\ snPc' = [snPc EXCEPT ![t] =
                   IF LockedCheck(snInstances, snCls[t]) THEN "new"
                   ELSE "release"]
    /\ UNCHANGED <<snInstances, snLocks, snHeld, snMade, snInits, snReturned,
                   snCls, snLock, snLocal, snCalls, snNextLock, snNextInst>>
    /\ UNCHANGED notSingleton

\* line 35: instance = super().__new__(cls)
SnNew(t) ==
    /\ snPc[t] = "new"
    /\ snLocal' = [snLocal EXCEPT ![t] = snNextInst]
    /\ snMade' = [snMade EXCEPT ![snCls[t]] = @ \cup {snNextInst}]
    /\ snNextInst' = snNextInst + 1
    /\ snPc' = [snPc EXCEPT ![t] = "store"]
    /\ UNCHANGED <<snInstances, snLocks, snHeld, snInits, snReturned, snCls,
                   snLock, snCalls, snNextLock>>
    /\ UNCHANGED notSingleton

\* line 36: cls._instances[cls] = instance
SnStore(t) ==
    /\ snPc[t] = "store"
    /\ snInstances' = [snInstances EXCEPT ![snCls[t]] = snLocal[t]]
    /\ snPc' = [snPc EXCEPT ![t] = "class_init"]
    /\ UNCHANGED <<snLocks, snHeld, snMade, snInits, snReturned, snCls,
                   snLock, snLocal, snCalls, snNextLock, snNextInst>>
    /\ UNCHANGED notSingleton

\* lines 38-40: __class_init__ is called when the class has one
SnClassInit(t) ==
    /\ snPc[t] = "class_init"
    /\ snInits' = IF HasClassInit(snCls[t])
                  THEN [snInits EXCEPT ![snCls[t]] = @ + 1]
                  ELSE snInits
    /\ snPc' = [snPc EXCEPT ![t] = "release"]
    /\ UNCHANGED <<snInstances, snLocks, snHeld, snMade, snReturned, snCls,
                   snLock, snLocal, snCalls, snNextLock, snNextInst>>
    /\ UNCHANGED notSingleton

\* the with block is left
SnRelease(t) ==
    /\ snPc[t] = "release"
    /\ snHeld' = snHeld \ {snLock[t]}
    /\ snPc' = [snPc EXCEPT ![t] = "return"]
    /\ UNCHANGED <<snInstances, snLocks, snMade, snInits, snReturned, snCls,
                   snLock, snLocal, snCalls, snNextLock, snNextInst>>
    /\ UNCHANGED notSingleton

\* line 41: return cls._instances[cls]
SnReturn(t) ==
    /\ snPc[t] = "return"
    /\ snReturned' = [snReturned EXCEPT ![snCls[t]] = @ \cup {snInstances[snCls[t]]}]
    /\ snPc' = [snPc EXCEPT ![t] = "idle"]
    /\ UNCHANGED <<snInstances, snLocks, snHeld, snMade, snInits, snCls,
                   snLock, snLocal, snCalls, snNextLock, snNextInst>>
    /\ UNCHANGED notSingleton

SingletonNext ==
    \/ \E t \in SnThreads, cls \in SnClasses : Construct(t, cls)
    \/ \E t \in SnThreads : SnCheck(t)
    \/ \E t \in SnThreads : SnSetDefault(t)
    \/ \E t \in SnThreads : SnAcquire(t)
    \/ \E t \in SnThreads : SnLockedCheck(t)
    \/ \E t \in SnThreads : SnNew(t)
    \/ \E t \in SnThreads : SnStore(t)
    \/ \E t \in SnThreads : SnClassInit(t)
    \/ \E t \in SnThreads : SnRelease(t)
    \/ \E t \in SnThreads : SnReturn(t)

\* C24: for every subclass, at most one instance is ever created, every
\* construction that has returned returned an instance that was created
\* (so exactly one exists once a construction has returned, and all
\* constructions returned that one), and the stored instance never changes.
Thm_C24 ==
    \A cls \in SnClasses :
        /\ Cardinality(snMade[cls]) <= 1
        /\ snReturned[cls] \subseteq snMade[cls]
        /\ snInstances[cls] # 0 => snMade[cls] = {snInstances[cls]}

\* two threads were inside __new__ of the same class past the first check
\* at the same time, and both constructions have returned
Wit_C24 ==
    \E cls \in SnClasses :
        /\ snNextLock > 2
        /\ snLocks[cls] = 1
        /\ \A t \in SnThreads : snCls[t] = cls /\ snCalls[t] = 1 /\ snPc[t] = "idle"
        /\ Cardinality(snReturned[cls]) = 1
        /\ snNextInst = 2

(***************************************************************************)
(* The three states of a row                                               *)
(***************************************************************************)
\* C25: between operations no row of any icon model is at once in the icon
\* cache and in the loading set: each row is unrequested (in neither),
\* loading (only in the loading set) or ready (only in the cache).
Thm_C25 ==
    \A t \in DOMAIN models : \A r \in DOMAIN models[t].paths :
        ~(models[t].icons[r] # "none" /\ r \in models[t].loading)

\* the window holds a row in each of the three states: one cached from a
\* render task, one still loading and one never requested
Wit_C25 ==
    \E a \in Cells, b \in Cells, c \in Cells :
        /\ models[a[1]].icons[a[2]] = "zip" /\ a[2] \notin models[a[1]].loading
        /\ models[b[1]].icons[b[2]] = "none" /\ b[2] \in models[b[1]].loading
        /\ models[c[1]].icons[c[2]] = "none" /\ c[2] \notin models[c[1]].loading

(***************************************************************************)
(* The search box and the filter of the active tab                         *)
(***************************************************************************)
\* C29: once a tab is active, after any sequence of search-text edits and
\* tab switches the filter pattern of the active tab equals the text of
\* the search box.
Thm_C29 == curTab # 0 => tabFilter[curTab] = searchText

\* the active tab follows the search box while a tab that is not active
\* still holds the pattern it was left with
Wit_C29 ==
    /\ curTab = 2
    /\ searchText = ""
    /\ tabFilter[2] = ""
    /\ tabFilter[1] = "box"

(***************************************************************************)
(* debug_attach_bootstrap.main with debugging enabled in DEV: the watchdog *)
(* thread is started first (line 40), then the DebugpyRuntime (42-50).     *)
(* Both threads hold the same ready_file path.  The watched process can go *)
(* away at any moment; os._exit ends every thread of the process at once.  *)
(***************************************************************************)
\* polls of the watchdog that find the watched process alive
MaxChecks == 2

Exited == wdPc = "exited"

WatchIdle ==
    /\ bootPc = "idle"
    /\ wdPc = "none"
    /\ rtPc = "none"
    /\ markerFile = FALSE
    /\ houdiniAlive = TRUE
    /\ wdChecks = 0
    /\ wdRemoved = FALSE

\* main has passed its two guards; a marker of an earlier session may exist
WatchInit ==
    /\ bootPc = "start_watchdog"
    /\ wdPc = "none"
    /\ rtPc = "none"
    /\ markerFile \in BOOLEAN
    /\ houdiniAlive \in BOOLEAN
    /\ wdChecks = 0
    /\ wdRemoved = FALSE

\* the watched process ends
HoudiniGone ==
    /\ ~Exited
    /\ houdiniAlive
    /\ houdiniAlive' = FALSE
    /\ UNCHANGED <<bootPc, wdPc, rtPc, markerFile, wdChecks, wdRemoved>>
    /\ UNCHANGED notWatch

\* line 40: ProcessWatchdog(...).start()
BootStartWatchdog ==
    /\ ~Exited
    /\ bootPc = "start_watchdog"
    /\ bootPc' = "start_runtime"
    /\ wdPc' = "check"
    /\ UNCHANGED <<rtPc, markerFile, houdiniAlive, wdChecks, wdRemoved>>
    /\ UNCHANGED notWatch

\* lines 42-50: _RUNTIME = DebugpyRuntime(...); _RUNTIME.start()
BootStartRuntime ==
    /\ ~Exited
    /\ bootPc = "start_runtime"
    /\ bootPc' = "done"
    /\ rtPc' = "configure"
    /\ UNCHANGED <<wdPc, markerFile, houdiniAlive, wdChecks, wdRemoved>>
    /\ UNCHANGED notWatch

\* ProcessWatchdog._run: `if not self._houdini_alive()`, else sleep and loop
WdCheck ==
    /\ wdPc = "check"
    /\ IF houdiniAlive
       THEN /\ wdChecks < MaxChecks
            /\ wdChecks' = wdChecks + 1
            /\ wdPc' = "check"
       ELSE /\ wdPc' = "exists"
            /\ UNCHANGED wdChecks
    /\ UNCHANGED <<bootPc, rtPc, markerFile, houdiniAlive, wdRemoved>>
    /\ UNCHANGED notWatch

\* _cleanup_on_process_exit: `if self.ready_file.exists()`
WdExists ==
    /\ wdPc = "exists"
    /\ wdPc' = IF markerFile THEN "unlink" ELSE "exit"
    /\ UNCHANGED <<bootPc, rtPc, markerFile, houdiniAlive, wdChecks, wdRemoved>>
    /\ UNCHANGED notWatch

\* self.ready_file.unlink(); a failure is logged and swallowed (93-95)
WdUnlink(ok) ==
    /\ wdPc = "unlink"
    /\ IF ok
       THEN markerFile' = FALSE /\ wdRemoved' = TRUE
       ELSE UNCHANGED <<markerFile, wdRemoved>>
    /\ wdPc' = "exit"
    /\ UNCHANGED <<bootPc, rtPc, houdiniAlive, wdChecks>>
    /\ UNCHANGED notWatch

\* os._exit(0)
WdExit ==
    /\ wdPc = "exit"
    /\ wdPc' = "exited"
    /\ UNCHANGED <<bootPc, rtPc, markerFile, houdiniAlive, wdChecks, wdRemoved>>
    /\ UNCHANGED notWatch

\* DebugpyRuntime._run: debugpy.configure
RtConfigure(ok) ==
    /\ ~Exited
    /\ rtPc = "configure"
    /\ rtPc' = IF ok THEN "listen" ELSE "failed"
    /\ UNCHANGED <<bootPc, wdPc, markerFile, houdiniAlive, wdChecks, wdRemoved>>
    /\ UNCHANGED notWatch

\* debugpy.listen
RtListen(ok) ==
    /\ ~Exited
    /\ rtPc = "listen"
    /\ rtPc' = IF ok THEN "mark" ELSE "failed"
    /\ UNCHANGED <<bootPc, wdPc, markerFile, houdiniAlive, wdChecks, wdRemoved>>
    /\ UNCHANGED notWatch

\* _mark_debugpy_ready: self.ready_file.write_text("ready")
RtMark(ok) ==
    /\ ~Exited
    /\ rtPc = "mark"
    /\ markerFile' = IF ok THEN TRUE ELSE markerFile
    /\ rtPc' = "done"
    /\ UNCHANGED <<bootPc, wdPc, houdiniAlive, wdChecks, wdRemoved>>
    /\ UNCHANGED notWatch

WatchNext ==
    \/ HoudiniGone
    \/ BootStartWatchdog
    \/ BootStartRuntime
    \/ WdCheck
    \/ WdExists
    \/ \E ok \in BOOLEAN : WdUnlink(ok)
    \/ WdExit
    \/ \E ok \in BOOLEAN : RtConfigure(ok)
    \/ \E ok \in BOOLEAN : RtListen(ok)
    \/ \E ok \in BOOLEAN : RtMark(ok)

\* C27 (as claimed): whenever the process exits because the watchdog found
\* the watched process gone, the ready-marker file does not exist at the
\* moment of exit, under every interleaving of the watchdog thread with the
\* DebugpyRuntime thread that writes the marker.
Cex_C27 == Exited => ~markerFile

(***************************************************************************)
(* set_debug.start_debugpy.  The lock is created inside the function, so   *)
(* each call has a lock of its own; the started flag is an attribute of    *)
(* hou.session, shared by all calls.                                       *)
(***************************************************************************)
\* threads that call start_debugpy, and calls each of them makes
MaxDebugCallers == 2

MaxDebugCalls == 2

DebugCallers == 1..MaxDebugCallers

DebugIdle ==
    /\ sdPc = [t \in DebugCallers |-> "idle"]
    /\ sdLock = [t \in DebugCallers |-> 0]
    /\ sdHeld = {}
    /\ sdFlag = FALSE
    /\ sdSpawned = 0
    /\ sdCalls = [t \in DebugCallers |-> 0]
    /\ sdNextLock = 1

DebugInit == DebugIdle

\* line 52: _lock = threading.Lock()
SdMakeLock(t) ==
    /\ sdPc[t] = "idle"
    /\ sdCalls[t] < MaxDebugCalls
    /\ sdCalls' = [sdCalls EXCEPT ![t] = @ + 1]
    /\ sdLock' = [sdLock EXCEPT ![t] = sdNextLock]
    /\ sdNextLock' = sdNextLock + 1
    /\ sdPc' = [sdPc EXCEPT ![t] = "acquire"]
    /\ UNCHANGED <<sdHeld, sdFlag, sdSpawned>>
    /\ UNCHANGED notDebug

\* line 53: `with _lock:` waits until this call's lock is free
SdAcquire(t) ==
    /\ sdPc[t] = "acquire"
    /\ sdLock[t] \notin sdHeld
    /\ sdHeld' = sdHeld \cup {sdLock[t]}
    /\ sdPc' = [sdPc EXCEPT ![t] = "check"]
    /\ UNCHANGED <<sdLock, sdFlag, sdSpawned, sdCalls, sdNextLock>>
    /\ UNCHANGED notDebug

\* lines 54-55: `if hasattr(hou.session, ...): return`
SdCheck(t) ==
    /\ sdPc[t] = "check"
    /\ IF sdFlag
       THEN /\ sdHeld' = sdHeld \ {sdLock[t]}
            /\ sdPc' = [sdPc EXCEPT ![t] = "idle"]
       ELSE /\ sdPc' = [sdPc EXCEPT ![t] = "set"]
            /\ UNCHANGED sdHeld
    /\ UNCHANGED <<sdLock, sdFlag, sdSpawned, sdCalls, sdNextLock>>
    /\ UNCHANGED notDebug

\* line 56: the flag is set, then the with block ends
SdSet(t) ==
    /\ sdPc[t] = "set"
    /\ sdFlag' = TRUE
    /\ sdHeld' = sdHeld \ {sdLock[t]}
    /\ sdPc' = [sdPc EXCEPT ![t] = "spawn"]
    /\ UNCHANGED <<sdLock, sdSpawned, sdCalls, sdNextLock>>
    /\ UNCHANGED notDebug

\* line 80: threading.Thread(target=_run, daemon=True).start()
SdSpawn(t) ==
    /\ sdPc[t] = "spawn"
    /\ sdSpawned' = sdSpawned + 1
    /\ sdPc' = [sdPc EXCEPT ![t] = "idle"]
    /\ UNCHANGED <<sdLock, sdHeld, sdFlag, sdCalls, sdNextLock>>
    /\ UNCHANGED notDebug

DebugNext ==
    \/ \E t \in DebugCallers : SdMakeLock(t)
    \/ \E t \in DebugCallers : SdAcquire(t)
    \/ \E t \in DebugCallers : SdCheck(t)
    \/ \E t \in DebugCallers : SdSet(t)
    \/ \E t \in DebugCallers : SdSpawn(t)

\* C30 (as claimed): under any interleaving of concurrent start_debugpy()
\* calls at most one debugpy listener thread is started for the host
\* session; every call after the first starts nothing.
Cex_C30 == sdSpawned <= 1

(***************************************************************************)
(* The life of the server thread next to start().  SendPythonServer._run   *)
(* binds, listens and serves connections until an exception ends it: a     *)
(* failing bind, or an exception escaping _handle_connection; `except      *)
(* Exception` logs "server crashed" and _run returns.  start() is the      *)
(* guard modelled above, called by the same callers.                       *)
(***************************************************************************)
\* connections the thread serves before it may crash
MaxServed == 2

Server == "SendPythonServer"

\* everything but the start guards and the server thread
notStartLife == <<bridgeVars, clientVars, iconVars, groupVars, wheelVars,
                  hostVars, qtVars, qssVars, execVars, singletonVars,
                  watchVars, debugVars>>

LifeIdle ==
    /\ lfThread = "none"
    /\ lfCause = "none"
    /\ lfBegun = 0
    /\ lfServed = 0

LifeInit == LifeIdle

\* mutant: the thread clears the flag on its way out so that start() can
\* be used again
StartedAfterEnd_Reset(st, s) == [st EXCEPT ![s] = FALSE]

\* what _run leaves in _started when it returns: it does not touch it
StartedAfterEnd(st, s) == st

\* a thread spawned by start() begins to run _run
ThreadBegin ==
    /\ spawned[Server] > lfBegun
    /\ lfThread \in {"none", "ended"}
    /\ lfThread' = "bind"
    /\ lfCause' = "none"
    /\ lfBegun' = lfBegun + 1
    /\ UNCHANGED lfServed
    /\ UNCHANGED notLife

\* server.bind / server.listen succeed
ThreadListen ==
    /\ lfThread = "bind"
    /\ lfThread' = "listening"
    /\ UNCHANGED <<lfCause, lfBegun, lfServed>>
    /\ UNCHANGED notLife

\* one connection is accepted and handled
ThreadServe ==
    /\ lfThread = "listening"
    /\ lfServed < MaxServed
    /\ lfServed' = lfServed + 1
    /\ UNCHANGED <<lfThread, lfCause, lfBegun>>
    /\ UNCHANGED notLife

\* _run returns through `except Exception`: cause "bind" when bind or
\* listen raised, "crash" when the accept loop raised
ThreadEnd ==
    /\ lfThread \in {"bind", "listening"}
    /\ lfCause' = IF lfThread = "bind" THEN "bind" ELSE "crash"
    /\ lfThread' = "ended"
    /\ started' = StartedAfterEnd(started, Server)
    /\ UNCHANGED <<lfBegun, lfServed>>
    /\ UNCHANGED <<lock, spawned, stPc, stSvc, stCalls, stDone>>
    /\ UNCHANGED notStartLife

LifeNext ==
    \/ StartNext
    \/ ThreadBegin
    \/ ThreadListen
    \/ ThreadServe
    \/ ThreadEnd

\* C26: the started flag of a SendPythonServer is never reset, and once
\* its thread has ended (bind failure or crash of the accept loop) no
\* start() spawns a thread and the thread state stays ended: the object
\* never listens again.
Thm_C26 ==
    [][/\ started[Server] => started'[Server]
       /\ lfThread = "ended" =>
              /\ lfThread' = "ended"
              /\ spawned'[Server] = spawned[Server]
              /\ started'[Server]]_vars

\* the accept loop has crashed after serving, the flag is still set and a
\* further start() call is inside its guard
Wit_C26 ==
    /\ lfThread = "ended"
    /\ lfCause = "crash"
    /\ lfServed > 0
    /\ started[Server]
    /\ \E t \in Callers : stPc[t] = "check" /\ stSvc[t] = Server /\ stCalls[t] = 2

(***************************************************************************)
(* Specifications                                                          *)
(***************************************************************************)
Init ==
    /\ BridgeInit
    /\ ClientIdle
    /\ StartIdle
    /\ IconIdle
    /\ GroupIdle
    /\ WheelIdle
    /\ HostIdle
    /\ QtIdle
    /\ QssIdle
    /\ ExecIdle
    /\ SingletonIdle
    /\ WatchIdle
    /\ DebugIdle
    /\ LifeIdle

Next == BridgeNext

Spec == Init /\ [][Next]_vars

InitClient ==
    /\ ClientIdle
    /\ BridgeInit
    /\ StartIdle
    /\ IconIdle
    /\ GroupIdle
    /\ WheelIdle
    /\ HostIdle
    /\ QtIdle
    /\ QssIdle
    /\ ExecIdle
    /\ SingletonIdle
    /\ WatchIdle
    /\ DebugIdle
    /\ LifeIdle

SpecClient == InitClient /\ [][ClientNext]_vars

InitStart ==
    /\ StartIdle
    /\ BridgeInit
    /\ ClientIdle
    /\ IconIdle
    /\ GroupIdle
    /\ WheelIdle
    /\ HostIdle
    /\ QtIdle
    /\ QssIdle
    /\ ExecIdle
    /\ SingletonIdle
    /\ WatchIdle
    /\ DebugIdle
    /\ LifeIdle

SpecStart == InitStart /\ [][StartNext]_vars

InitIcon ==
    /\ IconInit
    /\ BridgeInit
    /\ ClientIdle
    /\ StartIdle
    /\ GroupIdle
    /\ WheelIdle
    /\ HostIdle
    /\ QtIdle
    /\ QssIdle
    /\ ExecIdle
    /\ SingletonIdle
    /\ WatchIdle
    /\ DebugIdle
    /\ LifeIdle

SpecIcon == InitIcon /\ [][IconNext]_vars

InitPreload ==
    /\ PreloadInit
    /\ BridgeInit
    /\ ClientIdle
    /\ StartIdle
    /\ GroupIdle
    /\ WheelIdle
    /\ HostIdle
    /\ QtIdle
    /\ QssIdle
    /\ ExecIdle
    /\ SingletonIdle
    /\ WatchIdle
    /\ DebugIdle
    /\ LifeIdle

SpecPreload == InitPreload /\ [][PreloadNext]_vars

InitGroup ==
    /\ GroupInit
    /\ BridgeInit
    /\ ClientIdle
    /\ StartIdle
    /\ IconIdle
    /\ WheelIdle
    /\ HostIdle
    /\ QtIdle
    /\ QssIdle
    /\ ExecIdle
    /\ SingletonIdle
    /\ WatchIdle
    /\ DebugIdle
    /\ LifeIdle

SpecGroup == InitGroup /\ [][GroupNext]_vars

InitWheel ==
    /\ WheelInit
    /\ BridgeInit
    /\ ClientIdle
    /\ StartIdle
    /\ IconIdle
    /\ GroupIdle
    /\ HostIdle
    /\ QtIdle
    /\ QssIdle
    /\ ExecIdle
    /\ SingletonIdle
    /\ WatchIdle
    /\ DebugIdle
    /\ LifeIdle

SpecWheel == InitWheel /\ [][WheelNext]_vars

InitHost ==
    /\ HostInit
    /\ BridgeInit
    /\ ClientIdle
    /\ StartIdle
    /\ IconIdle
    /\ GroupIdle
    /\ WheelIdle
    /\ QtIdle
    /\ QssIdle
    /\ ExecIdle
    /\ SingletonIdle
    /\ WatchIdle
    /\ DebugIdle
    /\ LifeIdle

SpecHost == InitHost /\ [][HostNext]_vars

InitQt ==
    /\ QtInit
    /\ BridgeInit
    /\ ClientIdle
    /\ StartIdle
    /\ IconIdle
    /\ GroupIdle
    /\ WheelIdle
    /\ HostIdle
    /\ QssIdle
    /\ ExecIdle
    /\ SingletonIdle
    /\ WatchIdle
    /\ DebugIdle
    /\ LifeIdle

SpecQt == InitQt /\ [][QtNext]_vars

InitQss ==
    /\ QssInit
    /\ BridgeInit
    /\ ClientIdle
    /\ StartIdle
    /\ IconIdle
    /\ GroupIdle
    /\ WheelIdle
    /\ HostIdle
    /\ QtIdle
    /\ ExecIdle
    /\ SingletonIdle
    /\ WatchIdle
    /\ DebugIdle
    /\ LifeIdle

SpecQss == InitQss /\ [][QssNext]_vars

InitExec ==
    /\ ExecInit
    /\ BridgeInit
    /\ ClientIdle
    /\ StartIdle
    /\ IconIdle
    /\ GroupIdle
    /\ WheelIdle
    /\ HostIdle
    /\ QtIdle
    /\ QssIdle
    /\ SingletonIdle
    /\ WatchIdle
    /\ DebugIdle
    /\ LifeIdle

SpecExec == InitExec /\ [][ExecNext]_vars

InitSingleton ==
    /\ SingletonInit
    /\ BridgeInit
    /\ ClientIdle
    /\ StartIdle
    /\ IconIdle
    /\ GroupIdle
    /\ WheelIdle
    /\ HostIdle
    /\ QtIdle
    /\ QssIdle
    /\ ExecIdle
    /\ WatchIdle
    /\ DebugIdle
    /\ LifeIdle

SpecSingleton == InitSingleton /\ [][SingletonNext]_vars

InitWatch ==
    /\ WatchInit
    /\ BridgeInit
    /\ ClientIdle
    /\ StartIdle
    /\ IconIdle
    /\ GroupIdle
    /\ WheelIdle
    /\ HostIdle
    /\ QtIdle
    /\ QssIdle
    /\ ExecIdle
    /\ SingletonIdle
    /\ DebugIdle
    /\ LifeIdle

SpecWatch == InitWatch /\ [][WatchNext]_vars

InitDebug ==
    /\ DebugInit
    /\ BridgeInit
    /\ ClientIdle
    /\ StartIdle
    /\ IconIdle
    /\ GroupIdle
    /\ WheelIdle
    /\ HostIdle
    /\ QtIdle
    /\ QssIdle
    /\ ExecIdle
    /\ SingletonIdle
    /\ WatchIdle
    /\ LifeIdle

SpecDebug == InitDebug /\ [][DebugNext]_vars

InitLife ==
    /\ LifeInit
    /\ BridgeInit
    /\ ClientIdle
    /\ StartIdle
    /\ IconIdle
    /\ GroupIdle
    /\ WheelIdle
    /\ HostIdle
    /\ QtIdle
    /\ QssIdle
    /\ ExecIdle
    /\ SingletonIdle
    /\ WatchIdle
    /\ DebugIdle

SpecLife == InitLife /\ [][LifeNext]_vars

====
